---------------------------- MODULE Spec2Model ----------------------------
(***************************************************************************)
(* Model of the short-gainers decision engine: ranking (src/ranking),      *)
(* sentiment adjustment (src/sentiment), technical scoring                 *)
(* (src/technicals), pre-filter (src/filters) and the run_pipeline         *)
(* orchestration loop (src/pipeline.py).                                   *)
(*                                                                         *)
(* Numbers.  Scores, adjustments and penalties are held in hundredths of   *)
(* a point (3.0 is 300), confidence and beta in tenths (0.7 is 7, beta 3.0 *)
(* is 30).  Arithmetic is exact: the binary rounding error of the Python   *)
(* floats is not modelled, except at round(x, 1), where the side a tie     *)
(* falls on depends on the binary representation and is an input.          *)
(* Optional values: None is <<>> and a present value x is <<x>>.           *)
(***************************************************************************)
EXTENDS Integers, Sequences, FiniteSets, TLC

VARIABLES
    ranking_input,    \* RankingInput handed to rank_candidate
    ranking_result,   \* RankingResult (or the raised ValidationError)
    penalty_flags,    \* argument of compute_risk_penalty
    penalty_result,   \* its return value
    expr_args,        \* arguments of determine_expression
    expr_result,      \* its return value
    adj_assessment,   \* NewsAssessment handed to compute_score_adjustment
    adj_result,       \* its return value (capped, raw)
    catalyst_args,    \* arguments of analyze_catalyst and the LLM's behaviour
    catalyst_result,  \* its SentimentResult (or the exception it let out)
    tech_pc,          \* position inside compute_technical_score
    intraday_df,      \* whether an intraday frame with rows was passed
    breakdown,        \* the TechScoreBreakdown being filled
    returned_score,   \* the score compute_technical_score returns
    pc,               \* position inside run_pipeline
    pipeline_claude,  \* the ClaudeClient run_pipeline made, or None
    gainers,          \* the screened gainers the loop runs over
    loop_i,           \* number of the gainer being processed (1-based)
    inflight,         \* fetch tasks started and not finished: <<index, name>>
    ranking_inputs,   \* the list ranking_inputs
    excluded_tickers, \* the list excluded_tickers
    errors,           \* the list errors: [ticker, reason]
    outcome,          \* what run_pipeline is about to return or raise
    started,          \* history: indexes whose processing started, in order
    ended,            \* history: indexes whose processing ended, in order
    price_failed,     \* history: indexes whose price fetch gave no daily bars
    sub_failure,      \* history: some sub-component failed for some ticker
    runner,           \* which batch entry point runs
    batch_input,      \* analyze_tickers' tickers / analyze_batch's symbols
    batch_config,     \* the options the batch entry point runs with
    batch_results,    \* the list results of analyze_tickers / analyze_batch
    ranked_results,   \* run_pipeline's ranked_results, NotCalled before step 6
    hash_seed,        \* the string-hash seed of the running interpreter
    run_input,        \* the inputs the per-ticker pipeline is run on
    run_outputs,      \* what the runs on run_input produced, in order
    daily_input,      \* the daily frame handed to compute_technical_score
    tech_result,      \* the readings, breakdown and score it returned
    dash_input,       \* what analyze_ticker's fetches gave for one ticker
    dash_result,      \* the dashboard analyze_ticker built from it
    clock,            \* the event loop's time, in ticks
    last_request_time,\* AlphaVantageClient._last_request_time
    task_pc,          \* where each _request coroutine on the client stands
    wake_at,          \* when each coroutine sleeping in _throttle resumes
    request_started   \* history: when each coroutine's HTTP request started

rankVars == <<ranking_input, ranking_result>>
penaltyVars == <<penalty_flags, penalty_result>>
exprVars == <<expr_args, expr_result>>
sentVars == <<adj_assessment, adj_result, catalyst_args, catalyst_result>>

techVars == <<tech_pc, intraday_df, breakdown, returned_score>>

pipeVars == <<pc, pipeline_claude, gainers, loop_i, inflight, ranking_inputs,
              excluded_tickers, errors, outcome, started, ended, price_failed,
              sub_failure>>

batchVars == <<runner, batch_input, batch_config, batch_results>>

tickerVars == <<hash_seed, run_input, run_outputs>>
frameVars == <<daily_input, tech_result>>
dashVars == <<dash_input, dash_result>>
clientVars == <<clock, last_request_time, task_pc, wake_at, request_started>>

vars == <<rankVars, penaltyVars, exprVars, sentVars, techVars, pipeVars, batchVars,
          ranked_results, tickerVars, frameVars, dashVars, clientVars>>

None == <<>>
Some(x) == <<x>>
NotCalled == <<>>

Range(s) == {s[i] : i \in 1..Len(s)}
Min(a, b) == IF a < b THEN a ELSE b
Max(a, b) == IF a > b THEN a ELSE b

(***************************************************************************)
(* src/models/candidate.py                                                 *)
(***************************************************************************)
RiskFlag == {"MICROCAP", "HIGH_SQUEEZE", "FUNDAMENTAL_REPRICING",
             "LOW_LIQUIDITY", "EXTREME_VOLATILITY", "WARRANT", "NONE"}

TradeExpression == {"SHORT_SHARES", "BUY_PUTS", "PUT_SPREADS", "AVOID"}

\* Field(ge=Decimal("0"), le=Decimal("10")) on ShortCandidate.tech_score and
\* ShortCandidate.final_score, in hundredths.
ScoreFieldValid(x) == 0 <= x /\ x <= 1000

(***************************************************************************)
(* src/sentiment/catalyst.py: SentimentResult as the ranking reads it      *)
(***************************************************************************)
is_fundamental_repricing(sentiment_result) ==
    IF sentiment_result.assessment = None
    THEN FALSE
    ELSE sentiment_result.assessment[1].justifies_repricing

\* Mutant: the flag only for an assessment of confidence 0.7 or more.
get_risk_flag_HighConfidence(sentiment_result) ==
    IF /\ is_fundamental_repricing(sentiment_result)
       /\ sentiment_result.assessment[1].confidence >= 7
    THEN Some("FUNDAMENTAL_REPRICING")
    ELSE None

get_risk_flag_from_sentiment(sentiment_result) ==
    IF is_fundamental_repricing(sentiment_result)
    THEN Some("FUNDAMENTAL_REPRICING")
    ELSE None

(***************************************************************************)
(* src/ranking/ranker.py                                                   *)
(***************************************************************************)
\* RISK_PENALTIES.get(flag, 0.0): WARRANT has no entry and gets the default.
RISK_PENALTIES(flag) ==
    CASE flag = "MICROCAP" -> 100
      [] flag = "HIGH_SQUEEZE" -> 200
      [] flag = "LOW_LIQUIDITY" -> 50
      [] flag = "EXTREME_VOLATILITY" -> 150
      [] flag = "FUNDAMENTAL_REPRICING" -> 300
      [] flag = "NONE" -> 0
      [] OTHER -> 0

RECURSIVE PenaltyLoop(_, _, _, _)
PenaltyLoop(risk_flags, i, seen, penalty) ==
    IF i > Len(risk_flags)
    THEN penalty
    ELSE IF risk_flags[i] \notin seen
         THEN PenaltyLoop(risk_flags, i + 1, seen \cup {risk_flags[i]},
                          penalty + RISK_PENALTIES(risk_flags[i]))
         ELSE PenaltyLoop(risk_flags, i + 1, seen, penalty)

\* Mutant: the `if flag not in seen` test left out.
RECURSIVE PenaltyLoopNoSeen(_, _, _)
PenaltyLoopNoSeen(risk_flags, i, penalty) ==
    IF i > Len(risk_flags)
    THEN penalty
    ELSE PenaltyLoopNoSeen(risk_flags, i + 1,
                           penalty + RISK_PENALTIES(risk_flags[i]))

compute_risk_penalty_NoDedup(risk_flags) == PenaltyLoopNoSeen(risk_flags, 1, 0)

compute_risk_penalty(risk_flags) == PenaltyLoop(risk_flags, 1, {}, 0)

\* Mutant: the MICROCAP + HIGH_SQUEEZE pair missing from dangerous_combos.
has_dangerous_risk_profile_NoPair(flags) ==
    LET dangerous_combos == {{"HIGH_SQUEEZE", "EXTREME_VOLATILITY"},
                             {"MICROCAP", "HIGH_SQUEEZE", "LOW_LIQUIDITY"}}
    IN \E combo \in dangerous_combos : combo \subseteq flags

has_dangerous_risk_profile_from_flags(flags) ==
    LET dangerous_combos == {{"MICROCAP", "HIGH_SQUEEZE"},
                             {"HIGH_SQUEEZE", "EXTREME_VOLATILITY"},
                             {"MICROCAP", "HIGH_SQUEEZE", "LOW_LIQUIDITY"}}
    IN \E combo \in dangerous_combos : combo \subseteq flags

\* The literal 3.0 of `if final_score < 3.0`, in hundredths.
AvoidCutoff == 300

\* The literal 0.7 of `confidence >= 0.7`, in tenths.
RepricingConfidence == 7

\* Mutant: the HIGH_SQUEEZE test placed before the low-score test.
determine_expression_SqueezeFirst(final_score, risk_flags, beta, sentiment_result, max_beta_for_shares) ==
    LET flags_set == Range(risk_flags) IN
    IF has_dangerous_risk_profile_from_flags(flags_set) THEN "AVOID"
    ELSE IF /\ is_fundamental_repricing(sentiment_result)
            /\ sentiment_result.assessment[1].confidence >= RepricingConfidence
         THEN "AVOID"
    ELSE IF "HIGH_SQUEEZE" \in flags_set THEN "BUY_PUTS"
    ELSE IF final_score < AvoidCutoff THEN "AVOID"
    ELSE IF "EXTREME_VOLATILITY" \in flags_set THEN "PUT_SPREADS"
    ELSE IF beta # None /\ 2 * beta[1] > 3 * max_beta_for_shares THEN "AVOID"
    ELSE IF beta # None /\ beta[1] > max_beta_for_shares THEN "BUY_PUTS"
    ELSE IF "MICROCAP" \in flags_set THEN "PUT_SPREADS"
    ELSE "SHORT_SHARES"

\* final_score in hundredths, beta in tenths (or None), max_beta_for_shares
\* in tenths; beta > max * 1.5 is compared as 2 * beta > 3 * max.
determine_expression(final_score, risk_flags, beta, sentiment_result, max_beta_for_shares) ==
    LET flags_set == Range(risk_flags) IN
    IF has_dangerous_risk_profile_from_flags(flags_set) THEN "AVOID"
    ELSE IF /\ is_fundamental_repricing(sentiment_result)
            /\ sentiment_result.assessment[1].confidence >= RepricingConfidence
         THEN "AVOID"
    ELSE IF final_score < AvoidCutoff THEN "AVOID"
    ELSE IF "HIGH_SQUEEZE" \in flags_set THEN "BUY_PUTS"
    ELSE IF "EXTREME_VOLATILITY" \in flags_set THEN "PUT_SPREADS"
    ELSE IF beta # None /\ 2 * beta[1] > 3 * max_beta_for_shares THEN "AVOID"
    ELSE IF beta # None /\ beta[1] > max_beta_for_shares THEN "BUY_PUTS"
    ELSE IF "MICROCAP" \in flags_set THEN "PUT_SPREADS"
    ELSE "SHORT_SHARES"

\* round(final_score, 1) of a value in hundredths, result in hundredths.  A
\* value half way between two tenths goes to the side its binary
\* representation lies on (round(2.95, 1) = 3.0, round(9.95, 1) = 9.9);
\* tie_up says which.
Round1(x, tie_up) ==
    LET lo == (x \div 10) * 10
        r == x - lo
    IN IF r < 5 THEN lo
       ELSE IF r > 5 THEN lo + 10
       ELSE IF tie_up THEN lo + 10 ELSE lo

\* Mutant: the lower clamp left out.
ClampFinalUpperOnly(raw_final) == Min(1000, raw_final)

\* max(0.0, min(10.0, raw_final))
ClampFinal(raw_final) == Max(0, Min(1000, raw_final))

\* Lists are objects: input is the list input_data.risk_flags, local the
\* list made inside rank_candidate.  list(x) makes a new list with the items
\* of x and returns it.
\* Mutant: the name bound to the list itself, without a copy.
NewList_Alias(objects, source) == [objects |-> objects, ref |-> source]

NewList(objects, source) ==
    [objects |-> [objects EXCEPT !.local = objects[source]], ref |-> "local"]

\* risk_flags = list(input_data.risk_flags), then the append of the
\* sentiment flag to the list the name risk_flags is bound to.
RankFlagObjects(input_data) ==
    LET made == NewList([input |-> input_data.risk_flags, local |-> <<>>], "input")
        sentiment_flag == get_risk_flag_from_sentiment(input_data.sentiment_result)
    IN IF sentiment_flag # None /\ sentiment_flag[1] \notin Range(made.objects[made.ref])
       THEN [made EXCEPT !.objects[made.ref] = Append(@, sentiment_flag[1])]
       ELSE made

\* The list rank_candidate goes on with.
RankRiskFlags(input_data) ==
    LET bound == RankFlagObjects(input_data) IN bound.objects[bound.ref]

\* The RankingInput as it is once rank_candidate has run on it.
InputAfterRank(input_data) ==
    [input_data EXCEPT !.risk_flags = RankFlagObjects(input_data).objects.input]

\* ShortCandidate(...) is a pydantic model: the fields of the candidate that
\* fail validation (empty when it is built).
CandidateErrors(candidate) ==
    {f \in {"tech_score", "final_score"} : ~ScoreFieldValid(candidate[f])}
        \cup (IF candidate.news_assessment = None THEN {"news_assessment"} ELSE {})

rank_candidate(input_data, max_beta_for_shares, tie_up) ==
    LET tech_score == input_data.tech_score
        sentiment_adj == input_data.sentiment_result.score_adjustment
        risk_flags == RankRiskFlags(input_data)
        risk_penalty == compute_risk_penalty(risk_flags)
        raw_final == tech_score + sentiment_adj - risk_penalty
        final_score == ClampFinal(raw_final)
        expression == determine_expression(final_score, risk_flags,
                                           input_data.beta,
                                           input_data.sentiment_result,
                                           max_beta_for_shares)
        reported == Round1(final_score, tie_up)
        candidate == [ticker |-> input_data.ticker,
                      final_score |-> reported,
                      tech_score |-> input_data.tech_score,
                      news_assessment |-> input_data.sentiment_result.assessment,
                      risk_flags |-> IF risk_flags # <<>> THEN risk_flags
                                     ELSE <<"NONE">>,
                      preferred_expression |-> expression]
    IN IF CandidateErrors(candidate) # {}
       THEN [raised |-> CandidateErrors(candidate),
             ticker |-> input_data.ticker,
             final_score |-> 0,
             sentiment_adjustment |-> 0,
             risk_penalty |-> 0,
             expression |-> "AVOID",
             candidate |-> None]
       ELSE [raised |-> {},
             ticker |-> input_data.ticker,
             final_score |-> reported,
             sentiment_adjustment |-> sentiment_adj,
             risk_penalty |-> risk_penalty,
             expression |-> expression,
             candidate |-> Some(candidate)]

(***************************************************************************)
(* src/sentiment/catalyst.py: score adjustment and keyword heuristic       *)
(***************************************************************************)
CatalystClassification ==
    {"EARNINGS", "FDA", "MA", "UPGRADE", "DOWNGRADE", "CONTRACT",
     "PRODUCT_LAUNCH", "SPECULATIVE", "MEME_SOCIAL", "UNKNOWN"}

SentimentLevel ==
    {"strongly_positive", "positive", "mixed", "negative", "strongly_negative"}

\* Mutant: the table with its signs reversed.
CATALYST_SCORE_ADJUSTMENTS_SignsReversed(catalyst_type) ==
    CASE catalyst_type = "EARNINGS" -> 300
      [] catalyst_type = "FDA" -> 400
      [] catalyst_type = "MA" -> 500
      [] catalyst_type = "UPGRADE" -> 200
      [] catalyst_type = "CONTRACT" -> 150
      [] catalyst_type = "SPECULATIVE" -> -150
      [] catalyst_type = "MEME_SOCIAL" -> -200
      [] catalyst_type = "UNKNOWN" -> -50
      [] OTHER -> 0

\* dict.get(catalyst_type, 0.0): DOWNGRADE and PRODUCT_LAUNCH have no entry.
CATALYST_SCORE_ADJUSTMENTS(catalyst_type) ==
    CASE catalyst_type = "EARNINGS" -> -300
      [] catalyst_type = "FDA" -> -400
      [] catalyst_type = "MA" -> -500
      [] catalyst_type = "UPGRADE" -> -200
      [] catalyst_type = "CONTRACT" -> -150
      [] catalyst_type = "SPECULATIVE" -> 150
      [] catalyst_type = "MEME_SOCIAL" -> 200
      [] catalyst_type = "UNKNOWN" -> 50
      [] OTHER -> 0

SENTIMENT_ADJUSTMENTS(sentiment) ==
    CASE sentiment = "strongly_positive" -> -100
      [] sentiment = "positive" -> -50
      [] sentiment = "mixed" -> 50
      [] sentiment = "negative" -> 100
      [] sentiment = "strongly_negative" -> 150
      [] OTHER -> 0

\* The sum before scaling; every term is a multiple of 0.5.
RawBeforeScale(assessment) ==
    CATALYST_SCORE_ADJUSTMENTS(assessment.catalyst_type)
        + SENTIMENT_ADJUSTMENTS(assessment.sentiment)
        - (IF assessment.justifies_repricing THEN 200 ELSE 0)

\* Mutant: the repricing penalty subtracted after the scaling by confidence.
compute_score_adjustment_PenaltyUnscaled(assessment) ==
    LET raw == ((CATALYST_SCORE_ADJUSTMENTS(assessment.catalyst_type)
                 + SENTIMENT_ADJUSTMENTS(assessment.sentiment))
                * assessment.confidence) \div 10
               - (IF assessment.justifies_repricing THEN 200 ELSE 0)
        capped == Max(-500, Min(300, raw))
    IN [capped |-> capped, raw |-> raw]

\* Mutant: the cap to [-5, +3] left out.
compute_score_adjustment_NoCap(assessment) ==
    LET raw == (RawBeforeScale(assessment) * assessment.confidence) \div 10
    IN [capped |-> raw, raw |-> raw]

\* Returns (capped, raw).  confidence is in tenths, so the product is
\* divided by 10; the division is exact because the sum is a multiple of 50.
compute_score_adjustment(assessment) ==
    LET raw == (RawBeforeScale(assessment) * assessment.confidence) \div 10
        capped == Max(-500, Min(300, raw))
    IN [capped |-> capped, raw |-> raw]

earnings_keywords == {"earnings", "eps", "revenue", "profit", "beat", "miss", "guidance"}
fda_keywords == {"fda", "approval", "approved", "clinical", "trial", "phase"}
ma_keywords == {"merger", "acquisition", "acquire", "buyout", "takeover", "deal"}
upgrade_keywords == {"upgrade", "price target", "outperform", "buy rating"}
contract_keywords == {"contract", "award", "partnership", "agreement", "deal"}
meme_keywords == {"reddit", "wsb", "squeeze", "moon", "apes", "yolo"}
speculative_keywords == {"potential", "could", "may", "exploring", "considering"}

\* A headline is held as the set of keywords that occur in its lower-cased
\* text; " ".join(headlines).lower() is then the union of these sets.
JoinedText(headlines) == UNION Range(headlines)

\* any(kw in text for kw in keywords)
AnyKeywordIn(keywords, text) == keywords \cap text # {}

\* Mutant: a confidence that rises with the size of the move.
HeuristicAssessment_MoveConfidence(catalyst, sentiment, justifies, change_percent) ==
    [catalyst_type |-> catalyst,
     sentiment |-> IF change_percent > 50 /\ ~justifies THEN "mixed" ELSE sentiment,
     justifies_repricing |-> justifies,
     confidence |-> IF change_percent > 50 THEN 7 ELSE 5]

HeuristicAssessment(catalyst, sentiment, justifies, change_percent) ==
    [catalyst_type |-> catalyst,
     sentiment |-> IF change_percent > 50 /\ ~justifies THEN "mixed" ELSE sentiment,
     justifies_repricing |-> justifies,
     confidence |-> 5]

\* Mutant: the groups tested in the order the keyword lists are declared.
heuristic_catalyst_detection_EarningsFirst(headlines, change_percent) ==
    LET text == JoinedText(headlines) IN
    IF AnyKeywordIn(earnings_keywords, text)
    THEN HeuristicAssessment("EARNINGS", "positive", TRUE, change_percent)
    ELSE IF AnyKeywordIn(fda_keywords, text)
    THEN HeuristicAssessment("FDA", "strongly_positive", TRUE, change_percent)
    ELSE IF AnyKeywordIn(ma_keywords, text)
    THEN HeuristicAssessment("MA", "strongly_positive", TRUE, change_percent)
    ELSE IF AnyKeywordIn(upgrade_keywords, text)
    THEN HeuristicAssessment("UPGRADE", "positive", FALSE, change_percent)
    ELSE IF AnyKeywordIn(contract_keywords, text)
    THEN HeuristicAssessment("CONTRACT", "positive", FALSE, change_percent)
    ELSE IF AnyKeywordIn(meme_keywords, text)
    THEN HeuristicAssessment("MEME_SOCIAL", "mixed", FALSE, change_percent)
    ELSE IF AnyKeywordIn(speculative_keywords, text)
    THEN HeuristicAssessment("SPECULATIVE", "mixed", FALSE, change_percent)
    ELSE HeuristicAssessment("UNKNOWN", "mixed", FALSE, change_percent)

\* change_percent in whole percent.
heuristic_catalyst_detection(headlines, change_percent) ==
    LET text == JoinedText(headlines) IN
    IF AnyKeywordIn(fda_keywords, text)
    THEN HeuristicAssessment("FDA", "strongly_positive", TRUE, change_percent)
    ELSE IF AnyKeywordIn(ma_keywords, text)
    THEN HeuristicAssessment("MA", "strongly_positive", TRUE, change_percent)
    ELSE IF AnyKeywordIn(earnings_keywords, text)
    THEN HeuristicAssessment("EARNINGS", "positive", TRUE, change_percent)
    ELSE IF AnyKeywordIn(upgrade_keywords, text)
    THEN HeuristicAssessment("UPGRADE", "positive", FALSE, change_percent)
    ELSE IF AnyKeywordIn(contract_keywords, text)
    THEN HeuristicAssessment("CONTRACT", "positive", FALSE, change_percent)
    ELSE IF AnyKeywordIn(meme_keywords, text)
    THEN HeuristicAssessment("MEME_SOCIAL", "mixed", FALSE, change_percent)
    ELSE IF AnyKeywordIn(speculative_keywords, text)
    THEN HeuristicAssessment("SPECULATIVE", "mixed", FALSE, change_percent)
    ELSE HeuristicAssessment("UNKNOWN", "mixed", FALSE, change_percent)

(***************************************************************************)
(* src/clients/claude_client.py                                            *)
(* A call returns [raised, value]: raised holds the exception, or value    *)
(* the returned object.                                                    *)
(***************************************************************************)
Raise(exception) == [raised |-> Some(exception), value |-> None]
Return(v) == [raised |-> None, value |-> Some(v)]

\* Names bound in the module claude_client: its imports and definitions.
ClaudeClientModuleNames ==
    {"json", "Decimal", "Optional", "httpx", "CatalystClassification",
     "NewsAssessment", "SentimentLevel", "NewsFeed", "ClaudeClientError",
     "CATALYST_ANALYSIS_PROMPT", "ClaudeClient"}

\* Parameters of ClaudeClient.analyze_news after self.
AnalyzeNewsParameters == {"ticker", "pct_change", "news_feed"}

\* The NewsAssessment(catalyst_type=CatalystType.UNKNOWN, ...) default that
\* analyze_news builds: evaluating the name CatalystType comes first.
DefaultAssessment(confidence) ==
    IF "CatalystType" \in ClaudeClientModuleNames
    THEN Return([catalyst_type |-> "UNKNOWN", sentiment |-> "mixed",
                 justifies_repricing |-> FALSE, confidence |-> confidence])
    ELSE Raise("NameError")

\* client_ready: self._client was set by __aenter__.  response: what the
\* HTTP call does.
call_api(client_ready, response) ==
    IF ~client_ready THEN Raise("RuntimeError")
    ELSE IF response.kind = "transport_error" THEN Raise("HTTPError")
    ELSE IF response.kind = "timeout" THEN Raise("TimeoutException")
    ELSE IF response.kind = "no_text" THEN Raise("ClaudeClientError")
    ELSE Return(response)

\* NewsAssessment.confidence is validated to [0, 1].
parse_response(response) ==
    IF response.kind = "invalid_json" THEN Raise("ClaudeClientError")
    ELSE IF response.confidence < 0 \/ response.confidence > 10
    THEN Raise("ValidationError")
    ELSE Return([catalyst_type |-> IF response.catalyst_type \in CatalystClassification
                                   THEN response.catalyst_type ELSE "UNKNOWN",
                 sentiment |-> IF response.sentiment \in SentimentLevel
                               THEN response.sentiment ELSE "mixed",
                 justifies_repricing |-> response.justifies_repricing,
                 confidence |-> response.confidence])

\* Whether a call of analyze_news gets as far as self._client.post, the
\* request that runs under the timeout given to httpx.AsyncClient in
\* __aenter__.
request_sent(call_keywords, news_items, client_ready) ==
    /\ call_keywords = AnalyzeNewsParameters
    /\ news_items # <<>>
    /\ client_ready

\* call_keywords: the keyword names the caller passes; binding them to the
\* parameters is the first thing the call does.
analyze_news(call_keywords, news_items, client_ready, response) ==
    IF call_keywords # AnalyzeNewsParameters THEN Raise("TypeError")
    ELSE IF news_items = <<>> THEN DefaultAssessment(3)
    ELSE LET api == call_api(client_ready, response)
             parsed == IF api.raised # None THEN api
                       ELSE parse_response(api.value[1])
         IN IF parsed.raised = None THEN parsed ELSE DefaultAssessment(1)

(***************************************************************************)
(* src/sentiment/catalyst.py: analyze_catalyst                             *)
(***************************************************************************)
\* Keyword names analyze_catalyst passes to claude_client.analyze_news.
AnalyzeCatalystCallKeywords == {"ticker", "change_percent", "news_feed"}

SentimentResultOf(assessment, adj, source) ==
    [assessment |-> Some(assessment), score_adjustment |-> adj.capped,
     raw_adjustment |-> adj.raw, analysis_source |-> source]

NoNewsResult ==
    SentimentResultOf([catalyst_type |-> "UNKNOWN", sentiment |-> "mixed",
                       justifies_repricing |-> FALSE, confidence |-> 2],
                      [capped |-> 50, raw |-> 50], "none")

HeuristicResult(news_feed, change_percent) ==
    LET items == news_feed[1]
        headlines == SubSeq(items, 1, Min(Len(items), 10))
        assessment == heuristic_catalyst_detection(headlines, change_percent)
    IN SentimentResultOf(assessment, compute_score_adjustment(assessment), "heuristic")

\* Mutant: the try/except around the Claude attempt left out.
analyze_catalyst_NoTry(change_percent, news_feed, claude_client, response) ==
    IF news_feed = None \/ Len(news_feed[1]) = 0 THEN Return(NoNewsResult)
    ELSE IF claude_client # None
    THEN LET attempt == analyze_news(AnalyzeCatalystCallKeywords, news_feed[1],
                                     claude_client[1].ready, response)
         IN IF attempt.raised = None
            THEN Return(SentimentResultOf(attempt.value[1],
                                          compute_score_adjustment(attempt.value[1]),
                                          "claude"))
            ELSE attempt
    ELSE Return(HeuristicResult(news_feed, change_percent))

\* Mutant: only an absent feed takes the no-news path; a feed without items
\* goes on to the classifiers.
analyze_catalyst_OnlyAbsentFeed(change_percent, news_feed, claude_client, response) ==
    IF news_feed = None THEN Return(NoNewsResult)
    ELSE LET attempt == analyze_news(AnalyzeCatalystCallKeywords, news_feed[1],
                                     claude_client[1].ready, response)
         IN IF claude_client # None /\ attempt.raised = None
            THEN Return(SentimentResultOf(attempt.value[1],
                                          compute_score_adjustment(attempt.value[1]),
                                          "claude"))
            ELSE Return(HeuristicResult(news_feed, change_percent))

\* news_feed: None or Some(sequence of headlines); claude_client: None or
\* Some([ready]); response: what the LLM call does if it is reached.
analyze_catalyst(change_percent, news_feed, claude_client, response) ==
    IF news_feed = None \/ Len(news_feed[1]) = 0 THEN Return(NoNewsResult)
    ELSE LET attempt == analyze_news(AnalyzeCatalystCallKeywords, news_feed[1],
                                     claude_client[1].ready, response)
         IN IF claude_client # None /\ attempt.raised = None
            THEN Return(SentimentResultOf(attempt.value[1],
                                          compute_score_adjustment(attempt.value[1]),
                                          "claude"))
            ELSE Return(HeuristicResult(news_feed, change_percent))

(***************************************************************************)
(* src/technicals/scoring.py                                               *)
(* Indicator readings: RSI and rates of change in whole units, %B and      *)
(* volume ratio in hundredths, MACD values in thousandths.                 *)
(***************************************************************************)
score_rsi(rsi) ==
    IF rsi = None THEN 0
    ELSE IF rsi[1] >= 90 THEN 200
    ELSE IF rsi[1] >= 80 THEN 170
    ELSE IF rsi[1] >= 70 THEN 130
    ELSE IF rsi[1] >= 60 THEN 80
    ELSE IF rsi[1] >= 50 THEN 30
    ELSE 0

score_bollinger(bb) ==
    IF bb.percent_b = None THEN 0
    ELSE IF bb.price_above_upper THEN 200
    ELSE IF bb.percent_b[1] >= 95 THEN 170
    ELSE IF bb.percent_b[1] >= 80 THEN 130
    ELSE IF bb.percent_b[1] >= 60 THEN 70
    ELSE IF bb.percent_b[1] >= 50 THEN 30
    ELSE 0

\* Mutant: the bearish-crossover term subtracted instead of added.
score_macd_SignFlipped(macd) ==
    IF macd.histogram = None THEN 0
    ELSE Min((IF macd.histogram_declining THEN 80 ELSE 0)
             + (IF macd.histogram[1] > 0 /\ macd.histogram[1] < 100 THEN 40 ELSE 0)
             - (IF /\ macd.macd_line # None /\ macd.signal_line # None
                   /\ macd.macd_line[1] < macd.signal_line[1]
                THEN 30 ELSE 0),
             150)

score_macd(macd) ==
    IF macd.histogram = None THEN 0
    ELSE Min((IF macd.histogram_declining THEN 80 ELSE 0)
             + (IF macd.histogram[1] > 0 /\ macd.histogram[1] < 100 THEN 40 ELSE 0)
             + (IF /\ macd.macd_line # None /\ macd.signal_line # None
                   /\ macd.macd_line[1] < macd.signal_line[1]
                THEN 30 ELSE 0),
             150)

score_volume(volume_vs_avg, volume_confirming) ==
    Min((IF ~volume_confirming THEN 100 ELSE 0)
        + (IF volume_vs_avg = None THEN 0
           ELSE IF volume_vs_avg[1] < 70 THEN 50
           ELSE IF volume_vs_avg[1] < 100 THEN 20
           ELSE 0),
        150)

\* r3 < r5 * 0.6 is compared as 10 * r3 < 6 * r5.
score_momentum(roc_1d, roc_3d, roc_5d) ==
    Min((IF roc_1d = None THEN 0
         ELSE IF roc_1d[1] >= 50 THEN 60
         ELSE IF roc_1d[1] >= 30 THEN 40
         ELSE IF roc_1d[1] >= 20 THEN 20
         ELSE 0)
        + (IF roc_5d = None THEN 0
           ELSE IF roc_5d[1] >= 100 THEN 60
           ELSE IF roc_5d[1] >= 50 THEN 40
           ELSE IF roc_5d[1] >= 30 THEN 20
           ELSE 0)
        + (IF /\ roc_3d # None /\ roc_5d # None
              /\ roc_5d[1] > 0 /\ 10 * roc_3d[1] < 6 * roc_5d[1]
           THEN 30 ELSE 0),
        150)

score_patterns(lower_high, exhaustion) ==
    Min((IF lower_high THEN 80 ELSE 0) + (IF exhaustion THEN 70 ELSE 0), 150)

\* rsi_for_scoring: the higher of the daily and the intraday RSI when both
\* were computed, the daily one otherwise.
rsi_for_scoring(rsi_daily, rsi_intraday) ==
    IF rsi_intraday # None /\ rsi_daily # None
    THEN Some(Max(rsi_daily[1], rsi_intraday[1]))
    ELSE rsi_daily

\* Settings.weight_*: the default weights, in hundredths.
DefaultWeights ==
    [weight_rsi |-> 20, weight_bollinger |-> 20, weight_macd |-> 15,
     weight_volume |-> 15, weight_momentum |-> 15, weight_pattern |-> 15]

\* score * weight / 0.20 (or / 0.15), the weights and divisors in hundredths.
raw_total(b, settings) ==
    (b.rsi_score * settings.weight_rsi) \div 20
        + (b.bollinger_score * settings.weight_bollinger) \div 20
        + (b.macd_score * settings.weight_macd) \div 15
        + (b.volume_score * settings.weight_volume) \div 15
        + (b.momentum_score * settings.weight_momentum) \div 15
        + (b.pattern_score * settings.weight_pattern) \div 15

\* TechScoreBreakdown()
NewBreakdown ==
    [rsi_score |-> 0, bollinger_score |-> 0, macd_score |-> 0, volume_score |-> 0,
     momentum_score |-> 0, pattern_score |-> 0, total_score |-> 0]

(***************************************************************************)
(* src/technicals/indicators.py on a daily frame.  The frame is held as    *)
(* its number of bars together with what the indicator library computes    *)
(* from it when it is long enough (None for NaN).                          *)
(***************************************************************************)
\* Settings: rsi_period, bollinger_window, macd_slow + macd_signal.
rsi_period == 14
bollinger_window == 20
macd_min_bars == 35

get_current_rsi(frame) ==
    IF frame.bars < rsi_period + 1 THEN None ELSE frame.rsi

\* BollingerResult(None, None, None, None, None): price_above_upper False.
get_current_bollinger(frame) ==
    IF frame.bars < bollinger_window
    THEN [percent_b |-> None, price_above_upper |-> FALSE]
    ELSE frame.bb

\* MACDResult(None, None, None): histogram_declining False.
get_current_macd(frame) ==
    IF frame.bars < macd_min_bars
    THEN [histogram |-> None, histogram_declining |-> FALSE,
          macd_line |-> None, signal_line |-> None]
    ELSE frame.macd

\* get_volume_vs_average(daily_df, 20)
get_volume_vs_average(frame) ==
    IF frame.bars < 20 THEN None ELSE frame.volume_vs_avg

\* Mutant: False for a frame too short.
is_volume_confirming_price_DefaultFalse(frame) ==
    IF frame.bars < 5 THEN FALSE ELSE frame.volume_rose

\* is_volume_confirming_price(daily_df, 5): True for a frame too short, else
\* whether the volume rose over the window.
is_volume_confirming_price(frame) ==
    IF frame.bars < 5 THEN TRUE ELSE frame.volume_rose

\* get_current_roc(daily_df, period) for the periods 1, 3 and 5.
get_current_roc(frame, period) ==
    IF frame.bars < period + 1 THEN None ELSE frame.roc[period]

\* detect_lower_high(daily_df, 10)
detect_lower_high(frame) ==
    IF frame.bars < 10 THEN FALSE ELSE frame.lower_high

detect_exhaustion_candle(frame) ==
    IF frame.bars < 20 THEN FALSE ELSE frame.exhaustion

\* compute_technical_score(daily_df, None, settings): the readings, the
\* breakdown and the returned score.  The weighted sums are multiples of
\* 0.1, so round(total, 1) has no tie.
compute_technical_score(frame, weights) ==
    LET state == [rsi_daily |-> get_current_rsi(frame),
                  bb |-> get_current_bollinger(frame),
                  macd |-> get_current_macd(frame),
                  volume_vs_avg |-> get_volume_vs_average(frame),
                  volume_confirming_price |-> is_volume_confirming_price(frame),
                  roc_1d |-> get_current_roc(frame, 1),
                  roc_3d |-> get_current_roc(frame, 3),
                  roc_5d |-> get_current_roc(frame, 5),
                  lower_high_forming |-> detect_lower_high(frame),
                  exhaustion_candle |-> detect_exhaustion_candle(frame)]
        scores == [NewBreakdown EXCEPT
                      !.rsi_score = score_rsi(rsi_for_scoring(state.rsi_daily, None)),
                      !.bollinger_score = score_bollinger(state.bb),
                      !.macd_score = score_macd(state.macd),
                      !.volume_score = score_volume(state.volume_vs_avg,
                                                    state.volume_confirming_price),
                      !.momentum_score = score_momentum(state.roc_1d, state.roc_3d,
                                                        state.roc_5d),
                      !.pattern_score = score_patterns(state.lower_high_forming,
                                                       state.exhaustion_candle)]
        raw == raw_total(scores, weights)
        total == Min(raw, 1000)
    IN [raised |-> None,
        tech_state |-> state,
        breakdown |-> [scores EXCEPT !.total_score = total],
        raw_total |-> raw,
        score |-> Round1(total, FALSE)]

\* What the indicator functions can return for a price series.
RsiReadings == {None} \cup {Some(x) : x \in {40, 50, 65, 70, 85, 90, 100}}
BollingerReadings ==
    {[percent_b |-> pb, price_above_upper |-> a] :
        pb \in {None} \cup {Some(x) : x \in {-20, 50, 60, 80, 95, 120}},
        a \in BOOLEAN}
MacdReadings ==
    {[histogram |-> h, histogram_declining |-> d, macd_line |-> l, signal_line |-> g] :
        h \in {None} \cup {Some(x) : x \in {-50, 0, 50, 100}},
        d \in BOOLEAN,
        l \in {None, Some(-10), Some(10)}, g \in {None, Some(0)}}
VolumeReadings == {None} \cup {Some(x) : x \in {50, 70, 99, 100, 300}}
Roc1Readings == {None} \cup {Some(x) : x \in {-5, 20, 30, 50}}
Roc3Readings == {None} \cup {Some(x) : x \in {-5, 17, 18, 60}}
Roc5Readings == {None} \cup {Some(x) : x \in {-5, 30, 50, 100}}

(***************************************************************************)
(* src/filters/prefilter.py                                                *)
(* market_cap in millions of dollars, float_shares and avg_volume in       *)
(* thousands of shares, beta in tenths, change_percent in whole percent.   *)
(***************************************************************************)
LOW_FLOAT_THRESHOLD == 10000
HIGH_BETA_THRESHOLD == 25

\* Settings(): the pre-filter thresholds and max_beta_for_shares.
DefaultSettings ==
    [min_market_cap |-> 200, min_avg_volume |-> 500, max_beta_for_shares |-> 30]

\* Mutant: a market cap equal to the threshold is flagged too.
check_market_cap_AtThreshold(market_cap, min_market_cap) ==
    [passed |-> TRUE, reason |-> None,
     flags |-> IF market_cap = None \/ market_cap[1] <= min_market_cap
               THEN <<"MICROCAP">> ELSE <<>>]

\* Each check returns (passed, exclusion_reason, risk_flags).
check_market_cap(market_cap, min_market_cap) ==
    [passed |-> TRUE, reason |-> None,
     flags |-> IF market_cap = None \/ market_cap[1] < min_market_cap
               THEN <<"MICROCAP">> ELSE <<>>]

check_volume(avg_volume, min_volume) ==
    [passed |-> TRUE, reason |-> None,
     flags |-> IF avg_volume = None \/ avg_volume[1] < min_volume
               THEN <<"LOW_LIQUIDITY">> ELSE <<>>]

check_exchange(exchange, require_nasdaq) ==
    [passed |-> ~require_nasdaq \/ exchange = None \/ exchange = Some("NASDAQ"),
     flags |-> <<>>]

squeeze_signals(market_cap, float_shares, beta, avg_volume, change_percent) ==
    (IF float_shares # None /\ float_shares[1] < LOW_FLOAT_THRESHOLD THEN 2 ELSE 0)
    + (IF beta # None /\ beta[1] > HIGH_BETA_THRESHOLD THEN 1 ELSE 0)
    + (IF change_percent > 50 THEN 2 ELSE IF change_percent > 30 THEN 1 ELSE 0)
    + (IF /\ float_shares # None /\ avg_volume # None /\ avg_volume[1] > 0
          /\ float_shares[1] < avg_volume[1]
       THEN 1 ELSE 0)
    + (IF market_cap # None /\ market_cap[1] < 500 /\ change_percent > 20
       THEN 1 ELSE 0)

\* Mutant: HIGH_SQUEEZE only from four signals on.
check_squeeze_risk_FourSignals(market_cap, float_shares, beta, avg_volume, change_percent) ==
    (IF beta # None /\ beta[1] > HIGH_BETA_THRESHOLD
     THEN <<"EXTREME_VOLATILITY">> ELSE <<>>)
    \o (IF squeeze_signals(market_cap, float_shares, beta, avg_volume,
                           change_percent) >= 4
        THEN <<"HIGH_SQUEEZE">> ELSE <<>>)

check_squeeze_risk(market_cap, float_shares, beta, avg_volume, change_percent) ==
    (IF beta # None /\ beta[1] > HIGH_BETA_THRESHOLD
     THEN <<"EXTREME_VOLATILITY">> ELSE <<>>)
    \o (IF squeeze_signals(market_cap, float_shares, beta, avg_volume,
                           change_percent) >= 2
        THEN <<"HIGH_SQUEEZE">> ELSE <<>>)

\* The field of fundamentals, or None when fundamentals is None.
FieldOf(fundamentals, field) ==
    IF fundamentals = None THEN None ELSE fundamentals[1][field]

\* Returns the FilteredTicker.  unique_flags is list(set(all_flags)), whose
\* order is the set's iteration order: the flags are held as a set here, and
\* the caller that reads the list draws its order.
prefilter_ticker(fundamentals, change_percent, settings) ==
    LET market_cap == FieldOf(fundamentals, "market_cap")
        avg_volume == FieldOf(fundamentals, "avg_volume_10d")
        exchange == FieldOf(fundamentals, "exchange")
        beta == FieldOf(fundamentals, "beta")
        float_shares == FieldOf(fundamentals, "float_shares")
        mcap == check_market_cap(market_cap, settings.min_market_cap)
        vol == check_volume(avg_volume, settings.min_avg_volume)
        exch == check_exchange(exchange, TRUE)
        all_flags == mcap.flags \o vol.flags \o exch.flags
                        \o check_squeeze_risk(market_cap, float_shares, beta,
                                              avg_volume, change_percent)
        exclusion_reasons ==
            (IF mcap.passed THEN {} ELSE {"market_cap"})
                \cup (IF vol.passed THEN {} ELSE {"volume"})
                \cup (IF exch.passed THEN {} ELSE {"exchange"})
    IN [passed |-> exclusion_reasons = {},
        risk_flags |-> IF Range(all_flags) = {} THEN {"NONE"} ELSE Range(all_flags),
        exclusion_reasons |-> exclusion_reasons,
        market_cap |-> market_cap, avg_volume |-> avg_volume, beta |-> beta]

\* The lists a set can be iterated as.
Orderings(S) ==
    {f \in [1..Cardinality(S) -> S] : \A i, j \in 1..Cardinality(S) : i # j => f[i] # f[j]}

(***************************************************************************)
(* src/ranking/ranker.py: rank_candidates_batch                            *)
(***************************************************************************)
\* list.sort(key=float(final_score), reverse=True) is stable: a result goes
\* behind every result already placed whose score is not lower.
RECURSIVE InsertByScore(_, _, _)
InsertByScore(sorted, r, k) ==
    IF k > Len(sorted) THEN Append(sorted, r)
    ELSE IF sorted[k].final_score < r.final_score
    THEN SubSeq(sorted, 1, k - 1) \o <<r>> \o SubSeq(sorted, k, Len(sorted))
    ELSE InsertByScore(sorted, r, k + 1)

\* Mutant: the results left in the order of the inputs.
SortByScore_InputOrder(results, k, sorted) == results

RECURSIVE SortByScore(_, _, _)
SortByScore(results, k, sorted) ==
    IF k > Len(results) THEN sorted
    ELSE SortByScore(results, k + 1, InsertByScore(sorted, results[k], 1))

\* ties[k]: the side the k-th candidate's round(final_score, 1) falls on.
\* The choices round() has over a batch: one per result whose final score
\* lies half way between two tenths, none for the others.
RoundingChoices(inputs) ==
    LET half_way == [k \in 1..Len(inputs) |->
                        ClampFinal(inputs[k].tech_score
                                   + inputs[k].sentiment_result.score_adjustment
                                   - compute_risk_penalty(RankRiskFlags(inputs[k])))
                            % 10 = 5]
    IN {ties \in [1..Len(inputs) -> BOOLEAN] :
           \A k \in 1..Len(inputs) : ties[k] => half_way[k]}

\* The inputs as they are once rank_candidates_batch has run: the loop stops
\* at the first candidate that fails validation, and the sort is on the
\* list of results.
InputsAfterBatch(inputs, max_beta_for_shares, ties) ==
    LET failed == {k \in 1..Len(inputs) :
                      rank_candidate(inputs[k], max_beta_for_shares, ties[k]).raised # {}}
    IN [k \in 1..Len(inputs) |->
           IF \A f \in failed : k <= f THEN InputAfterRank(inputs[k]) ELSE inputs[k]]

rank_candidates_batch(inputs, max_beta_for_shares, ties) ==
    LET results == [k \in 1..Len(inputs) |->
                       rank_candidate(inputs[k], max_beta_for_shares, ties[k])]
    IN IF \E k \in 1..Len(inputs) : results[k].raised # {}
       THEN Raise("ValidationError")
       ELSE Return(SortByScore(results, 1, <<>>))

(***************************************************************************)
(* src/ingest: what the three fetch coroutines return.  Each catches the   *)
(* exceptions of its data source, so a failed fetch is a result without    *)
(* data, not an exception.                                                 *)
(***************************************************************************)
\* av_daily: what av_client.get_daily_ohlcv did: "raises", "empty" (a series
\* without bars), "stale" (bars, all older than the cutoff) or "bars".
\* yf_client is None in run_pipeline, so there is no fallback.
fetch_price_data(av_daily) ==
    [daily |-> IF av_daily \in {"raises", "empty"} THEN None
               ELSE IF av_daily = "stale" THEN Some("empty")
               ELSE Some("bars")]

\* price_result.daily is None or price_result.daily.is_empty
NoDailyBars(price_result) ==
    price_result.daily = None \/ price_result.daily = Some("empty")

(***************************************************************************)
(* src/pipeline.py: run_pipeline                                           *)
(***************************************************************************)
\* PipelineConfig(): min_change_percent in whole percent.
min_change_percent == 10

\* The body of the per-ticker try block from the return of the gather to
\* the append, for the results of the three tasks.  filtered is the
\* FilteredTicker of prefilter_ticker with its flag list in the order drawn;
\* scoring is what compute_technical_score_from_series does on the bars.
ticker_body(gainer, index, price_task, filtered, news_task, scoring, claude_client, response) ==
    IF price_task.raised # None
    THEN [raised |-> None, excluded |-> TRUE,
          error |-> Some("Price fetch failed"), ranking_input |-> None]
    ELSE IF ~filtered.passed
    THEN [raised |-> None, excluded |-> TRUE, error |-> None, ranking_input |-> None]
    ELSE IF NoDailyBars(price_task.value[1])
    THEN [raised |-> None, excluded |-> TRUE,
          error |-> Some("No daily price data"), ranking_input |-> None]
    ELSE IF scoring.raised # None
    THEN [raised |-> scoring.raised, excluded |-> FALSE, error |-> None,
          ranking_input |-> None]
    ELSE LET news_feed == IF news_task.raised = None THEN news_task.value[1].feed
                          ELSE None
             sentiment == analyze_catalyst(gainer.change_percentage, news_feed,
                                           claude_client, response)
         IN IF sentiment.raised # None
            THEN [raised |-> sentiment.raised, excluded |-> FALSE, error |-> None,
                  ranking_input |-> None]
            ELSE [raised |-> None, excluded |-> FALSE, error |-> None,
                  ranking_input |->
                      Some([ticker |-> gainer.ticker, index |-> index,
                            tech_score |-> scoring.value[1],
                            sentiment_result |-> sentiment.value[1],
                            risk_flags |-> filtered.risk_flags,
                            beta |-> filtered.beta])]

\* Mutant: the handler records the error without excluding the ticker.
process_ticker_ErrorOnly(gainer, index, price_task, filtered, news_task, scoring, claude_client, response) ==
    LET body == ticker_body(gainer, index, price_task, filtered, news_task,
                            scoring, claude_client, response)
    IN IF body.raised # None
       THEN [raised |-> None, excluded |-> FALSE,
             error |-> Some("Unexpected error"), ranking_input |-> None]
       ELSE body

\* The try block with its handler: except Exception records "Unexpected
\* error", excludes the ticker and continues.
process_ticker(gainer, index, price_task, filtered, news_task, scoring, claude_client, response) ==
    LET body == ticker_body(gainer, index, price_task, filtered, news_task,
                            scoring, claude_client, response)
    IN IF body.raised # None
       THEN [raised |-> None, excluded |-> TRUE,
             error |-> Some("Unexpected error"), ranking_input |-> None]
       ELSE body

\* Mutant: the price fetch of the next ticker started with the current ones.
TasksFor_Prefetch(index) ==
    {<<index, name>> : name \in {"price", "fundamentals", "news"}}
        \cup {<<index + 1, "price">>}

\* The coroutines handed to asyncio.gather for the ticker at index.
TasksFor(index) == {<<index, name>> : name \in {"price", "fundamentals", "news"}}

\* await asyncio.gather(..., return_exceptions=True) resumes when none of
\* its awaitables is pending.
gather_returns(gathered, pending) == gathered \cap pending = {}

\* Attributes of a ClaudeClient instance: its fields and methods.
ClaudeClientAttributes ==
    {"BASE_URL", "api_key", "model", "max_tokens", "timeout", "_client",
     "__init__", "__aenter__", "__aexit__", "analyze_news", "_call_api",
     "_parse_response"}

\* The finally block: av_client.close(), then claude_client.close() if a
\* client was made.  Returns the exception the block raises, or None.
finally_block(claude_client) ==
    IF claude_client # None /\ "close" \notin ClaudeClientAttributes
    THEN Some("AttributeError") ELSE None

\* build_agent_output and the format_* functions: the candidates of the
\* results, in their order.
build_agent_output(results, excluded, total_screened, notes) ==
    [candidates |-> [k \in 1..Len(results) |-> results[k].candidate[1]],
     excluded_tickers |-> excluded, total_screened |-> total_screened,
     notes |-> notes]

PipelineResult(success, candidates_found, tickers_screened, tickers_excluded, error_list) ==
    [success |-> success, candidates_found |-> candidates_found,
     tickers_screened |-> tickers_screened,
     tickers_excluded |-> tickers_excluded, errors |-> error_list]

\* errors[:5] if errors else None
Notes(error_list) ==
    IF error_list = <<>> THEN None
    ELSE Some(SubSeq(error_list, 1, Min(Len(error_list), 5)))

\* Steps 6 and 7: rank, build the output, and the PipelineResult to return
\* (or the exception of the ranking).
rank_and_report(inputs, excluded, error_list, total_screened, settings, ties) ==
    LET ranked == IF inputs = <<>> THEN Return(<<>>)
                  ELSE rank_candidates_batch(inputs, settings.max_beta_for_shares, ties)
    IN IF ranked.raised # None THEN ranked
       ELSE LET output == build_agent_output(ranked.value[1], excluded,
                                             total_screened, Notes(error_list))
            IN Return(PipelineResult(TRUE, Len(output.candidates), total_screened,
                                     Len(excluded), error_list))

\* [g for g in gainers if change >= min_change_percent][:max_tickers]
RECURSIVE SelectGainers(_, _)
SelectGainers(listed, k) ==
    IF k > Len(listed) THEN <<>>
    ELSE IF listed[k].change_percentage >= min_change_percent
    THEN <<listed[k]>> \o SelectGainers(listed, k + 1)
    ELSE SelectGainers(listed, k + 1)

screen_gainers(listed, max_tickers) ==
    LET kept == SelectGainers(listed, 1)
    IN SubSeq(kept, 1, Min(Len(kept), max_tickers))

(***************************************************************************)
(* src/batch_processor.py: BatchAnalyzer                                   *)
(***************************************************************************)
\* The fetch coroutines analyze_ticker hands to asyncio.gather.
AnalyzerTasksFor(index, config) ==
    {<<index, name>> : name \in
        {"quote", "overview", "prices", "rsi", "bbands", "atr", "macd"}
        \cup (IF config.include_news_analysis THEN {"news"} ELSE {})
        \cup (IF config.include_financials
              THEN {"income", "cashflow", "balance"} ELSE {})}

\* analyze_ticker after its gather: the dashboard, or None when anything in
\* the try block raised.
analyze_ticker(ticker, raised, short_score) ==
    IF raised THEN None ELSE Some([ticker |-> ticker, short_score |-> short_score])

\* The rest of analyze_ticker's try block.  change_percent is in percent,
\* shares_outstanding in millions, avg_volume in thousands of shares,
\* current_price in dollars, the ATR values in cents; 0 stands for a value
\* Python finds falsy (0, 0.0 or None).
\* The keyword groups in the joined headlines, in the order they are tried:
\* catalyst type, sentiment level, justifies_repricing, confidence (tenths).
dashboard_catalyst(news_keywords, include_news_analysis, change_percent) ==
    LET found ==
            IF news_keywords = {} \/ ~include_news_analysis
            THEN <<"UNKNOWN", "MIXED", FALSE, 5>>
            ELSE IF "fda" \in news_keywords THEN <<"FDA", "STRONGLY_POSITIVE", TRUE, 7>>
            ELSE IF "merger" \in news_keywords THEN <<"M&A", "STRONGLY_POSITIVE", TRUE, 7>>
            ELSE IF "earnings" \in news_keywords THEN <<"EARNINGS", "POSITIVE", TRUE, 6>>
            ELSE IF "upgrade" \in news_keywords THEN <<"UPGRADE", "POSITIVE", FALSE, 5>>
            ELSE IF "contract" \in news_keywords THEN <<"CONTRACT", "POSITIVE", FALSE, 5>>
            ELSE IF "reddit" \in news_keywords THEN <<"MEME_SOCIAL", "MIXED", FALSE, 4>>
            ELSE IF "rumor" \in news_keywords THEN <<"SPECULATIVE", "MIXED", FALSE, 4>>
            ELSE <<"UNKNOWN", "MIXED", FALSE, 5>>
        suspicious ==
            /\ news_keywords # {} /\ include_news_analysis
            /\ change_percent > 50 /\ ~found[3]
    IN [catalyst_type |-> found[1],
        sentiment_level |-> IF suspicious THEN "MIXED" ELSE found[2],
        justifies_repricing |-> found[3],
        sentiment_confidence |-> found[4]]

dashboard_catalyst_adjustments(catalyst_type) ==
    CASE catalyst_type = "EARNINGS" -> -300
      [] catalyst_type = "FDA" -> -400
      [] catalyst_type = "M&A" -> -500
      [] catalyst_type = "UPGRADE" -> -200
      [] catalyst_type = "CONTRACT" -> -150
      [] catalyst_type = "SPECULATIVE" -> 150
      [] catalyst_type = "MEME_SOCIAL" -> 200
      [] catalyst_type = "UNKNOWN" -> 50
      [] OTHER -> 0

dashboard_sentiment_adjustments(sentiment_level) ==
    CASE sentiment_level = "STRONGLY_POSITIVE" -> -100
      [] sentiment_level = "POSITIVE" -> -50
      [] sentiment_level = "MIXED" -> 50
      [] sentiment_level = "NEGATIVE" -> 100
      [] sentiment_level = "STRONGLY_NEGATIVE" -> 150
      [] OTHER -> 0

\* The sum scaled by the confidence and capped to [-5, +3]; every product in
\* reach is a whole number of hundredths.
dashboard_sentiment_adj(catalyst) ==
    LET scaled == ((dashboard_catalyst_adjustments(catalyst.catalyst_type)
                    + dashboard_sentiment_adjustments(catalyst.sentiment_level))
                   * catalyst.sentiment_confidence) \div 10
    IN Max(-500, Min(300, scaled))

dashboard_risk_flags(facts, justifies_repricing) ==
    (IF facts.change_percent > 100
        \/ (facts.shares_outstanding # 0 /\ facts.shares_outstanding < 50)
     THEN <<"HIGH_SQUEEZE">> ELSE <<>>)
    \o (IF facts.change_percent > 50
           \/ (facts.atr_14 # 0 /\ facts.atr_prior # 0
               /\ facts.atr_14 > 5 * facts.atr_prior)
        THEN <<"EXTREME_VOLATILITY">> ELSE <<>>)
    \o (IF /\ facts.shares_outstanding # 0 /\ facts.current_price # 0
           /\ facts.shares_outstanding * facts.current_price < 300
        THEN <<"MICROCAP">> ELSE <<>>)
    \o (IF facts.exchange # "" /\ facts.exchange # "NASDAQ"
        THEN <<"NON_NASDAQ">> ELSE <<>>)
    \o (IF facts.avg_volume # 0 /\ facts.avg_volume < 100
        THEN <<"LOW_LIQUIDITY">> ELSE <<>>)
    \o (IF justifies_repricing THEN <<"FUNDAMENTAL_REPRICING">> ELSE <<>>)
    \o (IF facts.is_warrant THEN <<"WARRANT">> ELSE <<>>)

dashboard_total_penalty(flag_list) ==
    (IF "HIGH_SQUEEZE" \in Range(flag_list) THEN -200 ELSE 0)
    + (IF "EXTREME_VOLATILITY" \in Range(flag_list) THEN -150 ELSE 0)
    + (IF "MICROCAP" \in Range(flag_list) THEN -100 ELSE 0)
    + (IF "NON_NASDAQ" \in Range(flag_list) THEN -50 ELSE 0)
    + (IF "LOW_LIQUIDITY" \in Range(flag_list) THEN -50 ELSE 0)
    + (IF "FUNDAMENTAL_REPRICING" \in Range(flag_list) THEN -200 ELSE 0)

dashboard_expression(final_score, justifies_repricing, flag_list) ==
    IF final_score < 400 \/ justifies_repricing THEN "AVOID"
    ELSE IF "HIGH_SQUEEZE" \in Range(flag_list) /\ "MICROCAP" \in Range(flag_list)
    THEN "AVOID"
    ELSE IF "HIGH_SQUEEZE" \in Range(flag_list) THEN "BUY_PUTS"
    ELSE IF "EXTREME_VOLATILITY" \in Range(flag_list) THEN "PUT_SPREADS"
    ELSE "SHORT_SHARES"

\* The TickerDashboard: the fields that carry the decision.
build_dashboard(facts) ==
    LET catalyst == dashboard_catalyst(facts.news_keywords, facts.include_news_analysis,
                                       facts.change_percent)
        flag_list == dashboard_risk_flags(facts, catalyst.justifies_repricing)
        sentiment_adj == dashboard_sentiment_adj(catalyst)
        final_score == Max(0, Min(1000, Min(facts.tech_score, 1000) + sentiment_adj
                                        + dashboard_total_penalty(flag_list)))
    IN [risk_flags |-> flag_list,
        has_fundamental_catalyst |-> catalyst.justifies_repricing,
        sentiment_adjustment |-> sentiment_adj,
        final_score |-> final_score,
        expression |-> dashboard_expression(final_score, catalyst.justifies_repricing,
                                            flag_list)]

(***************************************************************************)
(* src/short_gainers_agent/agent.py: ShortGainersAgent                     *)
(***************************************************************************)
\* The fetch coroutines analyze hands to asyncio.gather.
AgentTasksFor(index, include_fundamentals) ==
    {<<index, name>> : name \in
        {"technicals", "news_sentiment"}
        \cup (IF include_fundamentals THEN {"fundamentals"} ELSE {})}

\* results.sort(key=short_score, reverse=True), a stable sort.
RECURSIVE InsertByShortScore(_, _, _)
InsertByShortScore(sorted, r, k) ==
    IF k > Len(sorted) THEN Append(sorted, r)
    ELSE IF sorted[k].short_score < r.short_score
    THEN SubSeq(sorted, 1, k - 1) \o <<r>> \o SubSeq(sorted, k, Len(sorted))
    ELSE InsertByShortScore(sorted, r, k + 1)

RECURSIVE SortByShortScore(_, _, _)
SortByShortScore(unsorted, k, sorted) ==
    IF k > Len(unsorted) THEN sorted
    ELSE SortByShortScore(unsorted, k + 1, InsertByShortScore(sorted, unsorted[k], 1))

BatchResult(result_list, error_list) ==
    [results |-> SortByShortScore(result_list, 1, <<>>),
     total_analyzed |-> Len(result_list), errors |-> error_list]

(***************************************************************************)
(* The per-ticker path of run_pipeline without an LLM client: prefilter,   *)
(* the technical score, the heuristic catalyst, rank_candidate, and the    *)
(* output line of the candidate.                                           *)
(***************************************************************************)
\* The flags prefilter_ticker can collect.
PrefilterFlags == {"MICROCAP", "LOW_LIQUIDITY", "EXTREME_VOLATILITY", "HIGH_SQUEEZE"}

\* list(set(all_flags)): RiskFlag is a str enum and hashes as its string, so
\* the iteration order of the set follows the string-hash seed of the
\* interpreter (random per process unless PYTHONHASHSEED is set).  A seed is
\* held as the order it gives the flags.
iteration_order(flag_set, seed) ==
    IF flag_set = {"NONE"} THEN <<"NONE">>
    ELSE SelectSeq(seed, LAMBDA f : f \in flag_set)

\* ShortCandidate.to_output_line: the parts of the line the model carries
\* (ticker, score to one decimal, the news notes, the flags joined in list
\* order, expression).
to_output_line(candidate) ==
    <<candidate.ticker, candidate.final_score, candidate.news_assessment,
      candidate.risk_flags, candidate.preferred_expression>>

\* One run on one ticker: None when the ticker is excluded or its candidate
\* fails validation, else the candidate and its line.
run_ticker(input, seed) ==
    LET prefiltered == prefilter_ticker(input.fundamentals,
                                        input.gainer.change_percentage, DefaultSettings)
        filtered == [prefiltered EXCEPT
                        !.risk_flags = iteration_order(prefiltered.risk_flags, seed)]
        done == process_ticker(input.gainer, 1, Return(fetch_price_data("bars")),
                               filtered, Return([feed |-> input.news_feed]),
                               Return(input.tech_score), None, NotCalled)
    IN IF done.ranking_input = None THEN None
       ELSE LET ranked == rank_candidate(done.ranking_input[1],
                                         DefaultSettings.max_beta_for_shares,
                                         input.tie_up)
            IN IF ranked.candidate = None THEN None
               ELSE Some([candidate |-> ranked.candidate[1],
                          line |-> to_output_line(ranked.candidate[1])])

\* rank_candidates_batch's default, also Settings.max_beta_for_shares, in tenths.
max_beta_for_shares_default == 30

(***************************************************************************)
(* Input domains                                                           *)
(***************************************************************************)
\* Longest risk-flag list drawn as an argument of compute_risk_penalty and
\* determine_expression, and as the risk_flags of a RankingInput.
MaxFlagsLen == 3
MaxRankFlagsLen == 2

FlagLists == UNION {[1..n -> RiskFlag] : n \in 0..MaxFlagsLen}
RankFlagLists == UNION {[1..n -> RiskFlag] : n \in 0..MaxRankFlagsLen}

\* NewsAssessment values as the ranking reads them (confidence in tenths,
\* validated to [0, 1] by the model class).
RankAssessments ==
    {[catalyst_type |-> "UNKNOWN", sentiment |-> "mixed",
      justifies_repricing |-> j, confidence |-> c] :
        j \in BOOLEAN, c \in {5, 7}}

\* SentimentResult is a plain dataclass: any score_adjustment can be put in
\* it, also one outside [-5, 3], and assessment is Optional.
RankAdjustments == {-900, -205, -204, 50, 450}

RankSentimentResults ==
    {[assessment |-> a, score_adjustment |-> adj] :
        a \in {None} \cup {Some(x) : x \in RankAssessments},
        adj \in RankAdjustments}

\* RankingInput.tech_score is an unvalidated Decimal: 12.0 is an input.
RankTechScores == {0, 500, 1000, 1200}

Betas == {None, Some(30), Some(31), Some(45), Some(46)}

RankingInputs ==
    {[ticker |-> 1, tech_score |-> t, sentiment_result |-> s,
      risk_flags |-> f, beta |-> b] :
        t \in RankTechScores, s \in RankSentimentResults,
        f \in RankFlagLists, b \in {None, Some(31)}}

(***************************************************************************)
(* Each specification drives one component; the others stay idle.          *)
(***************************************************************************)
RankIdle == ranking_input = NotCalled /\ ranking_result = NotCalled
PenaltyIdle == penalty_flags = NotCalled /\ penalty_result = NotCalled
ExprIdle == expr_args = NotCalled /\ expr_result = NotCalled
SentIdle ==
    /\ adj_assessment = NotCalled /\ adj_result = NotCalled
    /\ catalyst_args = NotCalled /\ catalyst_result = NotCalled

TechIdle ==
    /\ tech_pc = "idle" /\ intraday_df = FALSE
    /\ breakdown = NewBreakdown /\ returned_score = NotCalled

NoBatchConfig ==
    [max_tickers |-> 0, include_news_analysis |-> FALSE,
     include_financials |-> FALSE, include_fundamentals |-> FALSE]

PipeIdle ==
    /\ pc = "idle" /\ pipeline_claude = None /\ gainers = <<>> /\ loop_i = 0
    /\ inflight = {} /\ ranking_inputs = <<>> /\ excluded_tickers = <<>>
    /\ errors = <<>> /\ outcome = NotCalled /\ started = <<>> /\ ended = <<>>
    /\ price_failed = {} /\ sub_failure = FALSE
    /\ runner = "none" /\ batch_input = <<>> /\ batch_config = NoBatchConfig
    /\ batch_results = <<>> /\ ranked_results = NotCalled

TickerIdle == hash_seed = <<>> /\ run_input = NotCalled /\ run_outputs = <<>>
FrameIdle == daily_input = NotCalled /\ tech_result = NotCalled
DashIdle == dash_input = NotCalled /\ dash_result = NotCalled
ClientIdle ==
    /\ clock = 0 /\ last_request_time = None /\ task_pc = <<>>
    /\ wake_at = <<>> /\ request_started = <<>>

OthersIdle(component) ==
    /\ IF component = "rank" THEN TRUE ELSE RankIdle
    /\ IF component = "penalty" THEN TRUE ELSE PenaltyIdle
    /\ IF component = "expr" THEN TRUE ELSE ExprIdle
    /\ IF component = "sent" THEN TRUE ELSE SentIdle
    /\ IF component = "tech" THEN TRUE ELSE TechIdle
    /\ IF component \in {"pipe", "batch"} THEN TRUE ELSE PipeIdle
    /\ IF component = "ticker" THEN TRUE ELSE TickerIdle
    /\ IF component = "frame" THEN TRUE ELSE FrameIdle
    /\ IF component = "dash" THEN TRUE ELSE DashIdle
    /\ IF component = "client" THEN TRUE ELSE ClientIdle

OthersUnchanged(component) ==
    /\ IF component = "rank" THEN TRUE ELSE UNCHANGED rankVars
    /\ IF component = "penalty" THEN TRUE ELSE UNCHANGED penaltyVars
    /\ IF component = "expr" THEN TRUE ELSE UNCHANGED exprVars
    /\ IF component = "sent" THEN TRUE ELSE UNCHANGED sentVars
    /\ IF component = "tech" THEN TRUE ELSE UNCHANGED techVars
    /\ IF component \in {"pipe", "batch"} THEN TRUE
       ELSE UNCHANGED <<pipeVars, batchVars, ranked_results>>
    /\ IF component = "ticker" THEN TRUE ELSE UNCHANGED tickerVars
    /\ IF component = "frame" THEN TRUE ELSE UNCHANGED frameVars
    /\ IF component = "dash" THEN TRUE ELSE UNCHANGED dashVars
    /\ IF component = "client" THEN TRUE ELSE UNCHANGED clientVars

(***************************************************************************)
(* SpecRank: rank_candidate applied to one RankingInput                    *)
(***************************************************************************)
InitRank ==
    /\ ranking_input \in {Some(x) : x \in RankingInputs}
    /\ ranking_result = NotCalled
    /\ OthersIdle("rank")

RankCandidate ==
    /\ ranking_input # NotCalled
    /\ ranking_result = NotCalled
    /\ \E tie_up \in BOOLEAN :
          ranking_result' = Some(rank_candidate(ranking_input[1],
                                                max_beta_for_shares_default,
                                                tie_up))
    /\ ranking_input' = Some(InputAfterRank(ranking_input[1]))
    /\ OthersUnchanged("rank")

NextRank == RankCandidate

SpecRank == InitRank /\ [][NextRank]_vars

(***************************************************************************)
(* SpecPenalty: compute_risk_penalty applied to one flag list              *)
(***************************************************************************)
InitPenalty ==
    /\ penalty_flags \in {Some(f) : f \in FlagLists}
    /\ penalty_result = NotCalled
    /\ OthersIdle("penalty")

ComputeRiskPenalty ==
    /\ penalty_flags # NotCalled
    /\ penalty_result = NotCalled
    /\ penalty_result' = Some(compute_risk_penalty(penalty_flags[1]))
    /\ UNCHANGED penalty_flags
    /\ OthersUnchanged("penalty")

NextPenalty == ComputeRiskPenalty

SpecPenalty == InitPenalty /\ [][NextPenalty]_vars

(***************************************************************************)
(* SpecExpr: determine_expression applied to one argument tuple            *)
(***************************************************************************)
ExprFinalScores == {0, 299, 300, 1000}

ExprArgs ==
    {[final_score |-> fs, risk_flags |-> f, beta |-> b, sentiment_result |-> s] :
        fs \in ExprFinalScores, f \in FlagLists, b \in Betas,
        s \in {[assessment |-> a, score_adjustment |-> 0] :
                  a \in {None} \cup {Some(x) : x \in RankAssessments}}}

InitExpr ==
    /\ expr_args \in {Some(x) : x \in ExprArgs}
    /\ expr_result = NotCalled
    /\ OthersIdle("expr")

DetermineExpression ==
    /\ expr_args # NotCalled
    /\ expr_result = NotCalled
    /\ expr_result' = Some(determine_expression(expr_args[1].final_score,
                                                expr_args[1].risk_flags,
                                                expr_args[1].beta,
                                                expr_args[1].sentiment_result,
                                                max_beta_for_shares_default))
    /\ UNCHANGED expr_args
    /\ OthersUnchanged("expr")

NextExpr == DetermineExpression

SpecExpr == InitExpr /\ [][NextExpr]_vars

(***************************************************************************)
(* SpecSent: compute_score_adjustment applied to one NewsAssessment, or    *)
(* analyze_catalyst applied to one ticker's news                           *)
(***************************************************************************)
\* Every NewsAssessment the model class admits, confidence in tenths.
Assessments ==
    {[catalyst_type |-> c, sentiment |-> s, justifies_repricing |-> j,
      confidence |-> k] :
        c \in CatalystClassification, s \in SentimentLevel,
        j \in BOOLEAN, k \in 0..10}

\* Most headlines of one news feed.
MaxHeadlines == 2

\* Headlines: no keyword, or one keyword of a list (deal is in two lists).
Titles ==
    {{}} \cup {{k} : k \in {"fda", "merger", "deal", "earnings", "upgrade",
                            "contract", "reddit", "potential"}}

NewsFeeds == {None} \cup {Some(h) : h \in UNION {[1..n -> Titles] : n \in 0..MaxHeadlines}}

ClaudeClients == {None} \cup {Some([ready |-> r]) : r \in BOOLEAN}

\* What the HTTP call to the LLM does: fails in transport, gives no answer
\* within the timeout, answers without a text block, answers text that is
\* not JSON, or answers a JSON object whose values may lie outside the enums
\* and outside [0, 1].
ApiResponses ==
    {[kind |-> k, catalyst_type |-> "UNKNOWN", sentiment |-> "mixed",
      justifies_repricing |-> FALSE, confidence |-> 5] :
        k \in {"transport_error", "timeout", "no_text", "invalid_json"}}
    \cup
    {[kind |-> "json", catalyst_type |-> c, sentiment |-> s,
      justifies_repricing |-> j, confidence |-> k] :
        c \in {"FDA", "BUYBACK"}, s \in {"positive", "bullish"},
        j \in BOOLEAN, k \in {7, 15}}

CatalystArgs ==
    {[change_percent |-> p, news_feed |-> n, claude_client |-> c, response |-> r] :
        p \in {30, 60, 80}, n \in NewsFeeds, c \in ClaudeClients, r \in ApiResponses}

InitSent ==
    /\ \/ /\ adj_assessment \in {Some(a) : a \in Assessments}
          /\ catalyst_args = NotCalled
       \/ /\ adj_assessment = NotCalled
          /\ catalyst_args \in {Some(a) : a \in CatalystArgs}
    /\ adj_result = NotCalled
    /\ catalyst_result = NotCalled
    /\ OthersIdle("sent")

ComputeScoreAdjustment ==
    /\ adj_assessment # NotCalled
    /\ adj_result = NotCalled
    /\ adj_result' = Some(compute_score_adjustment(adj_assessment[1]))
    /\ UNCHANGED <<adj_assessment, catalyst_args, catalyst_result>>
    /\ OthersUnchanged("sent")

AnalyzeCatalyst ==
    /\ catalyst_args # NotCalled
    /\ catalyst_result = NotCalled
    /\ catalyst_result' = Some(analyze_catalyst(catalyst_args[1].change_percent,
                                                catalyst_args[1].news_feed,
                                                catalyst_args[1].claude_client,
                                                catalyst_args[1].response))
    /\ UNCHANGED <<adj_assessment, adj_result, catalyst_args>>
    /\ OthersUnchanged("sent")

NextSent == ComputeScoreAdjustment \/ AnalyzeCatalyst

SpecSent == InitSent /\ [][NextSent]_vars

(***************************************************************************)
(* SpecTech: compute_technical_score on one ticker's price frames, one     *)
(* step per indicator block; each step reads its indicators from the       *)
(* frames and stores the sub-score in the breakdown.                       *)
(***************************************************************************)
InitTech ==
    /\ tech_pc = "rsi"
    /\ intraday_df \in BOOLEAN
    /\ breakdown = NewBreakdown
    /\ returned_score = NotCalled
    /\ OthersIdle("tech")

TechStep(from, to, field, score) ==
    /\ tech_pc = from
    /\ tech_pc' = to
    /\ breakdown' = [breakdown EXCEPT ![field] = score]
    /\ UNCHANGED <<intraday_df, returned_score>>
    /\ OthersUnchanged("tech")

TechRsi ==
    \E rsi_daily \in RsiReadings, intraday_reading \in RsiReadings :
        LET rsi_intraday == IF intraday_df THEN intraday_reading ELSE None
        IN TechStep("rsi", "bollinger", "rsi_score",
                    score_rsi(rsi_for_scoring(rsi_daily, rsi_intraday)))

TechBollinger ==
    \E bb \in BollingerReadings :
        TechStep("bollinger", "macd", "bollinger_score", score_bollinger(bb))

TechMacd ==
    \E macd \in MacdReadings :
        TechStep("macd", "volume", "macd_score", score_macd(macd))

TechVolume ==
    \E volume_vs_avg \in VolumeReadings, volume_confirming \in BOOLEAN :
        TechStep("volume", "momentum", "volume_score",
                 score_volume(volume_vs_avg, volume_confirming))

TechMomentum ==
    \E roc_1d \in Roc1Readings, roc_3d \in Roc3Readings, roc_5d \in Roc5Readings :
        TechStep("momentum", "patterns", "momentum_score",
                 score_momentum(roc_1d, roc_3d, roc_5d))

TechPatterns ==
    \E lh_daily, ex_daily, lh_intraday, ex_intraday \in BOOLEAN :
        LET lower_high == lh_daily \/ (intraday_df /\ lh_intraday)
            exhaustion == ex_daily \/ (intraday_df /\ ex_intraday)
        IN TechStep("patterns", "total", "pattern_score",
                    score_patterns(lower_high, exhaustion))

TechTotal ==
    /\ tech_pc = "total"
    /\ tech_pc' = "done"
    /\ breakdown' = [breakdown EXCEPT
                        !.total_score = Min(raw_total(breakdown, DefaultWeights), 1000)]
    /\ \E tie_up \in BOOLEAN : returned_score' = Some(Round1(breakdown'.total_score, tie_up))
    /\ UNCHANGED intraday_df
    /\ OthersUnchanged("tech")

NextTech ==
    \/ TechRsi
    \/ TechBollinger
    \/ TechMacd
    \/ TechVolume
    \/ TechMomentum
    \/ TechPatterns
    \/ TechTotal

SpecTech == InitTech /\ [][NextTech]_vars

(***************************************************************************)
(* SpecFrame: compute_technical_score applied to one daily frame, without  *)
(* an intraday frame.                                                      *)
(***************************************************************************)
\* Numbers of bars on both sides of every minimum length the indicators ask
\* for (2, 4, 5, 6, 10, 15, 20, 35).
FrameLengths == {0, 1, 4, 5, 9, 14, 19, 20, 34, 60}

\* What the library computes from a frame that is long enough.
FrameRsi == {None, Some(40), Some(95)}
FrameBollinger ==
    {[percent_b |-> None, price_above_upper |-> FALSE],
     [percent_b |-> Some(30), price_above_upper |-> FALSE],
     [percent_b |-> Some(120), price_above_upper |-> TRUE]}
FrameMacd ==
    {[histogram |-> None, histogram_declining |-> FALSE,
      macd_line |-> None, signal_line |-> None],
     [histogram |-> Some(500), histogram_declining |-> TRUE,
      macd_line |-> Some(900), signal_line |-> Some(400)],
     [histogram |-> Some(50), histogram_declining |-> TRUE,
      macd_line |-> Some(-50), signal_line |-> Some(0)]}
FrameVolume == {None, Some(50), Some(150)}
FrameRoc ==
    {[p \in {1, 3, 5} |-> IF p = 1 THEN r1 ELSE IF p = 3 THEN Some(10) ELSE r5] :
        r1 \in {Some(10), Some(60)}, r5 \in {None, Some(120)}}

DailyFrames ==
    {[bars |-> n, rsi |-> r, bb |-> b, macd |-> m, volume_vs_avg |-> v,
      volume_rose |-> c, roc |-> k, lower_high |-> p, exhaustion |-> x] :
        n \in FrameLengths, r \in FrameRsi, b \in FrameBollinger, m \in FrameMacd,
        v \in FrameVolume, c \in BOOLEAN, k \in FrameRoc, p \in BOOLEAN,
        x \in BOOLEAN}

InitFrame ==
    /\ daily_input \in {Some(f) : f \in DailyFrames}
    /\ tech_result = NotCalled
    /\ OthersIdle("frame")

ComputeTechnicalScore ==
    /\ daily_input # NotCalled
    /\ tech_result = NotCalled
    /\ tech_result' = Some(compute_technical_score(daily_input[1], DefaultWeights))
    /\ UNCHANGED daily_input
    /\ OthersUnchanged("frame")

NextFrame == ComputeTechnicalScore

SpecFrame == InitFrame /\ [][NextFrame]_vars

(***************************************************************************)
(* SpecDash: BatchAnalyzer.analyze_ticker after its fetches, on one ticker *)
(***************************************************************************)
DashFacts ==
    {[change_percent |-> c, shares_outstanding |-> so, current_price |-> price,
      atr_14 |-> atr[1], atr_prior |-> atr[2], exchange |-> exch, avg_volume |-> v,
      is_warrant |-> w, news_keywords |-> n, include_news_analysis |-> inc,
      tech_score |-> t] :
        c \in {40, 60, 120}, so \in {0, 30, 400}, price \in {2, 10},
        atr \in {<<0, 0>>, <<60, 10>>}, exch \in {"NASDAQ", "NYSE"},
        v \in {0, 50, 2000}, w \in BOOLEAN,
        n \in {{}, {"fda"}, {"upgrade"}, {"reddit"}}, inc \in BOOLEAN,
        t \in {300, 800}}

InitDash ==
    /\ dash_input \in {Some(f) : f \in DashFacts}
    /\ dash_result = NotCalled
    /\ OthersIdle("dash")

AnalyzeTicker ==
    /\ dash_input # NotCalled
    /\ dash_result = NotCalled
    /\ dash_result' = Some(build_dashboard(dash_input[1]))
    /\ UNCHANGED dash_input
    /\ OthersUnchanged("dash")

NextDash == AnalyzeTicker

SpecDash == InitDash /\ [][NextDash]_vars

(***************************************************************************)
(* SpecClient: src/clients/alpha_vantage.py, the coroutines of one         *)
(* AlphaVantageClient on one event loop.  One step per stretch of code     *)
(* between two awaits of _request and _throttle.                           *)
(***************************************************************************)
\* The fetches process_ticker gathers for one ticker.
ClientTasks == {"price", "fundamentals", "news"}

\* request_delay = 60.0 / rate_limit_rpm, in ticks of the clock.
request_delay == 2

MaxClock == 5

InitClient ==
    /\ clock = 0
    /\ last_request_time = None
    /\ task_pc = [t \in ClientTasks |-> "created"]
    /\ wake_at = [t \in ClientTasks |-> None]
    /\ request_started = [t \in ClientTasks |-> None]
    /\ OthersIdle("client")

\* A coroutine enters _request and _throttle.  With no earlier request, or
\* one at least request_delay ago, it stamps _last_request_time and goes on
\* to self._client.get without an await in between; otherwise it reads the
\* stamp, computes the rest of the delay and awaits asyncio.sleep.
ThrottleEnter(t) ==
    /\ task_pc[t] = "created"
    /\ IF last_request_time # None /\ clock - last_request_time[1] < request_delay
       THEN /\ task_pc' = [task_pc EXCEPT ![t] = "sleep"]
            /\ wake_at' = [wake_at EXCEPT
                              ![t] = Some(clock + (request_delay
                                                   - (clock - last_request_time[1])))]
            /\ UNCHANGED <<last_request_time, request_started>>
       ELSE /\ task_pc' = [task_pc EXCEPT ![t] = "get"]
            /\ last_request_time' = Some(clock)
            /\ request_started' = [request_started EXCEPT ![t] = Some(clock)]
            /\ UNCHANGED wake_at
    /\ UNCHANGED clock
    /\ OthersUnchanged("client")

\* The sleep is over: the coroutine stamps _last_request_time, without
\* reading it again, and goes on to self._client.get.
ThrottleResume(t) ==
    /\ task_pc[t] = "sleep"
    /\ wake_at[t][1] <= clock
    /\ task_pc' = [task_pc EXCEPT ![t] = "get"]
    /\ last_request_time' = Some(clock)
    /\ request_started' = [request_started EXCEPT ![t] = Some(clock)]
    /\ wake_at' = [wake_at EXCEPT ![t] = None]
    /\ UNCHANGED clock
    /\ OthersUnchanged("client")

\* The response arrives and _request returns or raises.
RequestReturns(t) ==
    /\ task_pc[t] = "get"
    /\ task_pc' = [task_pc EXCEPT ![t] = "returned"]
    /\ UNCHANGED <<clock, last_request_time, wake_at, request_started>>
    /\ OthersUnchanged("client")

\* Time passes once every coroutine whose sleep is over has resumed.
Tick ==
    /\ task_pc # <<>>
    /\ clock < MaxClock
    /\ \A t \in ClientTasks : task_pc[t] = "sleep" => wake_at[t][1] > clock
    /\ clock' = clock + 1
    /\ UNCHANGED <<last_request_time, task_pc, wake_at, request_started>>
    /\ OthersUnchanged("client")

NextClient ==
    \/ \E t \in ClientTasks : ThrottleEnter(t)
    \/ \E t \in ClientTasks : ThrottleResume(t)
    \/ \E t \in ClientTasks : RequestReturns(t)
    \/ Tick

SpecClient == InitClient /\ [][NextClient]_vars

(***************************************************************************)
(* Spec: run_pipeline.  One step per stretch of code between two awaits:   *)
(* the screening of the gainers, the start of a ticker's three fetches,    *)
(* the end of one fetch, the handling of the gathered results up to the    *)
(* end of the iteration, the ranking and reporting, the finally block.     *)
(***************************************************************************)
\* Most tickers handed to a batch entry point.
MaxTickers == 2

\* The day's gainers as the source lists them; CCC is under the minimum change.
GainerFeed ==
    <<[ticker |-> "CCC", change_percentage |-> 5],
      [ticker |-> "AAA", change_percentage |-> 60],
      [ticker |-> "BBB", change_percentage |-> 25],
      [ticker |-> "DDD", change_percentage |-> 60]>>

\* The lists handed to run_pipeline: stretches of the feed.
GainerLists ==
    {SubSeq(GainerFeed, a, b) :
        a \in 1..Len(GainerFeed), b \in 0..Len(GainerFeed)}
    \cap UNION {[1..n -> Range(GainerFeed)] : n \in 0..MaxTickers}

\* Fundamentals the OVERVIEW fetch can give: a large NASDAQ company, and the
\* same listed on the NYSE.
FundamentalsSamples ==
    {[exchange |-> Some(x), market_cap |-> Some(1000), float_shares |-> None,
      beta |-> Some(12), avg_volume_10d |-> Some(2000)] : x \in {"NASDAQ", "NYSE"}}

FundamentalsResults == {[data |-> d] : d \in {None} \cup {Some(f) : f \in FundamentalsSamples}}

NewsResults == {[feed |-> f] : f \in {None, Some(<<{"fda"}>>)}}

PipelineResponses ==
    {r \in ApiResponses :
        \/ r.kind = "transport_error"
        \/ /\ r.kind = "json" /\ r.catalyst_type = "FDA" /\ r.sentiment = "positive"
           /\ r.justifies_repricing /\ r.confidence = 7}

AvDailyOutcomes == {"raises", "empty", "stale", "bars"}

ScoringOutcomes == {Raise("Exception"), Return(250), Return(900)}

\* The state at the call of a batch entry point.
AtCall ==
    /\ pc = "start"
    /\ gainers = <<>> /\ loop_i = 0 /\ inflight = {}
    /\ ranking_inputs = <<>> /\ excluded_tickers = <<>> /\ errors = <<>>
    /\ outcome = NotCalled /\ started = <<>> /\ ended = <<>>
    /\ price_failed = {} /\ sub_failure = FALSE
    /\ batch_input = <<>> /\ batch_config = NoBatchConfig /\ batch_results = <<>>
    /\ ranked_results = NotCalled
    /\ OthersIdle("pipe")

Init ==
    /\ runner = "run_pipeline"
    /\ pipeline_claude \in {None, Some([ready |-> FALSE])}
    /\ AtCall

\* Step 1: the gainers are manual_gainers or what fetch_top_gainers
\* returned (an empty list when the fetch failed), then the screening.
Screen ==
    /\ runner = "run_pipeline"
    /\ pc = "start"
    /\ \E manual \in BOOLEAN, listed \in GainerLists, max_tickers \in {1, MaxTickers} :
          /\ manual => listed # <<>>
          /\ LET screened == screen_gainers(listed, max_tickers) IN
             IF ~manual /\ listed = <<>>
             THEN /\ outcome' = Return(PipelineResult(FALSE, 0, 0, 0,
                          <<[ticker |-> "", reason |-> "Failed to fetch top gainers"]>>))
                  /\ pc' = "finally"
                  /\ UNCHANGED gainers
             ELSE IF screened = <<>>
             THEN /\ outcome' = Return(PipelineResult(TRUE, 0, 0, 0, <<>>))
                  /\ pc' = "finally"
                  /\ UNCHANGED gainers
             ELSE /\ gainers' = screened
                  /\ pc' = "loop"
                  /\ UNCHANGED outcome
    /\ UNCHANGED <<pipeline_claude, loop_i, inflight, ranking_inputs, excluded_tickers,
                   errors, started, ended, price_failed, sub_failure>>
    /\ UNCHANGED <<batchVars, ranked_results>>
    /\ OthersUnchanged("pipe")

\* The next iteration creates the three fetch coroutines and awaits the gather.
StartTicker ==
    /\ runner = "run_pipeline"
    /\ pc = "loop"
    /\ loop_i < Len(gainers)
    /\ loop_i' = loop_i + 1
    /\ inflight' = inflight \cup TasksFor(loop_i + 1)
    /\ started' = Append(started, loop_i + 1)
    /\ pc' = "gather"
    /\ UNCHANGED <<pipeline_claude, gainers, ranking_inputs, excluded_tickers, errors,
                   outcome, ended, price_failed, sub_failure>>
    /\ UNCHANGED <<batchVars, ranked_results>>
    /\ OthersUnchanged("pipe")

\* One of the fetches in flight finishes; the awaiting coroutine stays
\* suspended.
FetchCompletes ==
    /\ pc \in {"gather", "quote"}
    /\ \E task \in inflight : inflight' = inflight \ {task}
    /\ UNCHANGED <<pc, pipeline_claude, gainers, loop_i, ranking_inputs,
                   excluded_tickers, errors, outcome, started, ended, price_failed,
                   sub_failure>>
    /\ UNCHANGED <<batchVars, ranked_results>>
    /\ OthersUnchanged("pipe")

\* The gather resumes with the three results, and the rest of the
\* iteration runs without an await: prefilter, the daily-bars check, the
\* technical score, the catalyst analysis, the append.
GatherReturns ==
    /\ runner = "run_pipeline"
    /\ pc = "gather"
    /\ gather_returns(TasksFor(loop_i), inflight)
    /\ \E av_daily \in AvDailyOutcomes, fundamentals_result \in FundamentalsResults,
          news_result \in NewsResults :
          LET gainer == gainers[loop_i]
              price_task == Return(fetch_price_data(av_daily))
              news_task == Return(news_result)
              prefiltered == prefilter_ticker(fundamentals_result.data,
                                              gainer.change_percentage, DefaultSettings)
              \* compute_technical_score_from_series is reached
              scored == prefiltered.passed /\ ~NoDailyBars(price_task.value[1])
          IN \E flags \in Orderings(prefiltered.risk_flags),
                scoring \in IF scored THEN ScoringOutcomes ELSE {NotCalled} :
                LET \* the LLM call is reached
                    asked == /\ scored /\ scoring.raised = None
                             /\ pipeline_claude # None
                             /\ news_result.feed # None
                             /\ Len(news_result.feed[1]) > 0
                IN \E response \in IF asked THEN PipelineResponses ELSE {NotCalled} :
                      LET filtered == [prefiltered EXCEPT !.risk_flags = flags]
                          done == process_ticker(gainer, loop_i, price_task, filtered,
                                                 news_task, scoring, pipeline_claude,
                                                 response)
                          llm_failed ==
                              /\ asked
                              /\ analyze_news(AnalyzeCatalystCallKeywords,
                                              news_result.feed[1],
                                              pipeline_claude[1].ready,
                                              response).raised # None
                      IN /\ ranking_inputs' =
                                IF done.ranking_input # None
                                THEN Append(ranking_inputs, done.ranking_input[1])
                                ELSE ranking_inputs
                         /\ excluded_tickers' =
                                IF done.excluded
                                THEN Append(excluded_tickers, gainer.ticker)
                                ELSE excluded_tickers
                         /\ errors' =
                                IF done.error # None
                                THEN Append(errors, [ticker |-> gainer.ticker,
                                                     reason |-> done.error[1]])
                                ELSE errors
                         /\ IF done.raised # None
                            THEN pc' = "raised" /\ outcome' = Raise(done.raised[1])
                            ELSE pc' = "loop" /\ UNCHANGED outcome
                         /\ price_failed' =
                                IF NoDailyBars(price_task.value[1])
                                THEN price_failed \cup {loop_i} ELSE price_failed
                         /\ sub_failure' =
                                \/ sub_failure
                                \/ fundamentals_result.data = None
                                \/ news_result.feed = None
                                \/ done.error = Some("Unexpected error")
                                \/ llm_failed
    /\ ended' = Append(ended, loop_i)
    /\ UNCHANGED <<pipeline_claude, gainers, loop_i, inflight, started>>
    /\ UNCHANGED <<batchVars, ranked_results>>
    /\ OthersUnchanged("pipe")

\* After the last gainer: steps 6 and 7, no await in between.
RankAndReport ==
    /\ runner = "run_pipeline"
    /\ pc = "loop"
    /\ loop_i = Len(gainers)
    /\ \E ties \in RoundingChoices(ranking_inputs) :
          LET ranked == rank_candidates_batch(ranking_inputs,
                                              DefaultSettings.max_beta_for_shares, ties)
          IN /\ outcome' = rank_and_report(ranking_inputs, excluded_tickers, errors,
                                           Len(gainers), DefaultSettings, ties)
             /\ ranked_results' = IF ranking_inputs # <<>> /\ ranked.raised = None
                                  THEN Some(ranked.value[1])
                                  ELSE ranked_results
             /\ ranking_inputs' = InputsAfterBatch(ranking_inputs,
                                                   DefaultSettings.max_beta_for_shares,
                                                   ties)
    /\ pc' = "finally"
    /\ UNCHANGED <<pipeline_claude, gainers, loop_i, inflight,
                   excluded_tickers, errors, started, ended, price_failed,
                   sub_failure>>
    /\ UNCHANGED batchVars
    /\ OthersUnchanged("pipe")

\* The finally block runs on every way out of the try; an exception it
\* raises replaces the return value.
Finally ==
    /\ runner = "run_pipeline"
    /\ pc = "finally"
    /\ LET closing == finally_block(pipeline_claude)
       IN IF closing # None
          THEN pc' = "raised" /\ outcome' = Raise(closing[1])
          ELSE /\ pc' = IF outcome.raised # None THEN "raised" ELSE "returned"
               /\ UNCHANGED outcome
    /\ UNCHANGED <<pipeline_claude, gainers, loop_i, inflight, ranking_inputs,
                   excluded_tickers, errors, started, ended, price_failed,
                   sub_failure>>
    /\ UNCHANGED <<batchVars, ranked_results>>
    /\ OthersUnchanged("pipe")

Next ==
    \/ Screen
    \/ StartTicker
    \/ FetchCompletes
    \/ GatherReturns
    \/ RankAndReport
    \/ Finally

Spec == Init /\ [][Next]_vars

(***************************************************************************)
(* SpecBatch: the three batch entry points, run_pipeline, BatchAnalyzer's  *)
(* analyze_tickers and ShortGainersAgent's analyze_batch.                  *)
(***************************************************************************)
\* The lists handed to analyze_tickers and analyze_batch: the tickers of the
\* gainer lists.
TickerLists == {[k \in 1..Len(l) |-> l[k].ticker] : l \in GainerLists}

ShortScores == {250, 900}

InitBatch ==
    /\ runner \in {"run_pipeline", "analyze_tickers", "analyze_batch"}
    /\ pipeline_claude \in
          IF runner = "run_pipeline" THEN {None, Some([ready |-> FALSE])} ELSE {None}
    /\ AtCall

\* analyze_tickers is called: the list is cut to config.max_tickers.
AnalyzerStart ==
    /\ runner = "analyze_tickers"
    /\ pc = "start"
    /\ \E tickers \in TickerLists, max_tickers \in {1, MaxTickers},
          include_news_analysis \in BOOLEAN, include_financials \in BOOLEAN :
          /\ batch_input' = SubSeq(tickers, 1, Min(Len(tickers), max_tickers))
          /\ batch_config' = [max_tickers |-> max_tickers,
                              include_news_analysis |-> include_news_analysis,
                              include_financials |-> include_financials,
                              include_fundamentals |-> FALSE]
    /\ pc' = "loop"
    /\ UNCHANGED <<runner, batch_results, pipeline_claude, gainers, loop_i, inflight,
                   ranking_inputs, excluded_tickers, errors, outcome, started, ended,
                   price_failed, sub_failure>>
    /\ UNCHANGED ranked_results
    /\ OthersUnchanged("batch")

\* The next iteration begins with await asyncio.sleep(0.5).
AnalyzerSleep ==
    /\ runner = "analyze_tickers"
    /\ pc = "loop"
    /\ loop_i < Len(batch_input)
    /\ loop_i' = loop_i + 1
    /\ started' = Append(started, loop_i + 1)
    /\ pc' = "sleep"
    /\ UNCHANGED <<batchVars, pipeline_claude, gainers, inflight, ranking_inputs,
                   excluded_tickers, errors, outcome, ended, price_failed,
                   sub_failure>>
    /\ UNCHANGED ranked_results
    /\ OthersUnchanged("batch")

\* The sleep is over: analyze_ticker creates its fetches and awaits the gather.
AnalyzerFetch ==
    /\ runner = "analyze_tickers"
    /\ pc = "sleep"
    /\ inflight' = inflight \cup AnalyzerTasksFor(loop_i, batch_config)
    /\ pc' = "gather"
    /\ UNCHANGED <<batchVars, pipeline_claude, gainers, loop_i, ranking_inputs,
                   excluded_tickers, errors, outcome, started, ended, price_failed,
                   sub_failure>>
    /\ UNCHANGED ranked_results
    /\ OthersUnchanged("batch")

\* The gather resumes; the rest of analyze_ticker and of the iteration runs
\* without an await.
AnalyzerGatherReturns ==
    /\ runner = "analyze_tickers"
    /\ pc = "gather"
    /\ gather_returns(AnalyzerTasksFor(loop_i, batch_config), inflight)
    /\ \E raised \in BOOLEAN, short_score \in ShortScores :
          LET dashboard == analyze_ticker(batch_input[loop_i], raised, short_score)
          IN batch_results' = IF dashboard # None
                              THEN Append(batch_results, dashboard[1])
                              ELSE batch_results
    /\ ended' = Append(ended, loop_i)
    /\ pc' = "loop"
    /\ UNCHANGED <<runner, batch_input, batch_config, pipeline_claude, gainers,
                   loop_i, inflight, ranking_inputs, excluded_tickers, errors,
                   outcome, started, price_failed, sub_failure>>
    /\ UNCHANGED ranked_results
    /\ OthersUnchanged("batch")

AnalyzerReturn ==
    /\ runner = "analyze_tickers"
    /\ pc = "loop"
    /\ loop_i = Len(batch_input)
    /\ outcome' = Return(batch_results)
    /\ pc' = "returned"
    /\ UNCHANGED <<batchVars, pipeline_claude, gainers, loop_i, inflight,
                   ranking_inputs, excluded_tickers, errors, started, ended,
                   price_failed, sub_failure>>
    /\ UNCHANGED ranked_results
    /\ OthersUnchanged("batch")

\* analyze_batch is called.
AgentStart ==
    /\ runner = "analyze_batch"
    /\ pc = "start"
    /\ \E symbols \in TickerLists, include_fundamentals \in BOOLEAN :
          /\ batch_input' = symbols
          /\ batch_config' = [NoBatchConfig EXCEPT
                                 !.include_fundamentals = include_fundamentals]
    /\ pc' = "loop"
    /\ UNCHANGED <<runner, batch_results, pipeline_claude, gainers, loop_i, inflight,
                   ranking_inputs, excluded_tickers, errors, outcome, started, ended,
                   price_failed, sub_failure>>
    /\ UNCHANGED ranked_results
    /\ OthersUnchanged("batch")

\* The next iteration calls analyze, which awaits client.get_quote.
AgentQuote ==
    /\ runner = "analyze_batch"
    /\ pc = "loop"
    /\ loop_i < Len(batch_input)
    /\ loop_i' = loop_i + 1
    /\ started' = Append(started, loop_i + 1)
    /\ inflight' = inflight \cup {<<loop_i + 1, "quote">>}
    /\ pc' = "quote"
    /\ UNCHANGED <<batchVars, pipeline_claude, gainers, ranking_inputs,
                   excluded_tickers, errors, outcome, ended, price_failed,
                   sub_failure>>
    /\ UNCHANGED ranked_results
    /\ OthersUnchanged("batch")

\* get_quote is over.  With a quote, analyze creates its fetches and awaits
\* the gather; without one it raises ValueError, and an exception of
\* get_quote propagates: analyze_batch's handler records either.
AgentQuoteReturns ==
    /\ runner = "analyze_batch"
    /\ pc = "quote"
    /\ gather_returns({<<loop_i, "quote">>}, inflight)
    /\ \E quote \in {Return(Some("quote")), Return(None), Raise("Exception")} :
          IF quote.raised = None /\ quote.value[1] # None
          THEN /\ inflight' = inflight \cup
                      AgentTasksFor(loop_i, batch_config.include_fundamentals)
               /\ pc' = "gather"
               /\ UNCHANGED <<errors, ended>>
          ELSE /\ errors' = Append(errors,
                      [ticker |-> batch_input[loop_i],
                       reason |-> IF quote.raised = None THEN "ValueError"
                                  ELSE quote.raised[1]])
               /\ ended' = Append(ended, loop_i)
               /\ pc' = "loop"
               /\ UNCHANGED inflight
    /\ UNCHANGED <<batchVars, pipeline_claude, gainers, loop_i, ranking_inputs,
                   excluded_tickers, outcome, started, price_failed, sub_failure>>
    /\ UNCHANGED ranked_results
    /\ OthersUnchanged("batch")

\* The gather resumes; the rest of analyze and of the iteration runs
\* without an await.
AgentGatherReturns ==
    /\ runner = "analyze_batch"
    /\ pc = "gather"
    /\ gather_returns(AgentTasksFor(loop_i, batch_config.include_fundamentals), inflight)
    /\ \E result \in {Raise("Exception")} \cup {Return(sc) : sc \in ShortScores} :
          IF result.raised = None
          THEN /\ batch_results' = Append(batch_results,
                      [ticker |-> batch_input[loop_i], short_score |-> result.value[1]])
               /\ UNCHANGED errors
          ELSE /\ errors' = Append(errors, [ticker |-> batch_input[loop_i],
                                            reason |-> result.raised[1]])
               /\ UNCHANGED batch_results
    /\ ended' = Append(ended, loop_i)
    /\ pc' = "loop"
    /\ UNCHANGED <<runner, batch_input, batch_config, pipeline_claude, gainers,
                   loop_i, inflight, ranking_inputs, excluded_tickers, outcome,
                   started, price_failed, sub_failure>>
    /\ UNCHANGED ranked_results
    /\ OthersUnchanged("batch")

\* After the last symbol: the summary, the sort and the BatchResult.
AgentReturn ==
    /\ runner = "analyze_batch"
    /\ pc = "loop"
    /\ loop_i = Len(batch_input)
    /\ batch_results' = SortByShortScore(batch_results, 1, <<>>)
    /\ outcome' = Return(BatchResult(batch_results, errors))
    /\ pc' = "returned"
    /\ UNCHANGED <<runner, batch_input, batch_config, pipeline_claude, gainers,
                   loop_i, inflight, ranking_inputs, excluded_tickers, errors,
                   started, ended, price_failed, sub_failure>>
    /\ UNCHANGED ranked_results
    /\ OthersUnchanged("batch")

NextBatch ==
    \/ Next
    \/ AnalyzerStart
    \/ AnalyzerSleep
    \/ AnalyzerFetch
    \/ AnalyzerGatherReturns
    \/ AnalyzerReturn
    \/ AgentStart
    \/ AgentQuote
    \/ AgentQuoteReturns
    \/ AgentGatherReturns
    \/ AgentReturn

SpecBatch == InitBatch /\ [][NextBatch]_vars

(***************************************************************************)
(* SpecTicker: the per-ticker path run twice on the same inputs, in the    *)
(* same interpreter process or in two.                                     *)
(***************************************************************************)
HashSeeds == Orderings(PrefilterFlags)

TickerFundamentals ==
    {None} \cup
    {Some([exchange |-> Some("NASDAQ"), market_cap |-> Some(cap),
           float_shares |-> None, beta |-> Some(b), avg_volume_10d |-> Some(v)]) :
        cap \in {80, 1000}, b \in {12, 30}, v \in {100, 2000}}
    \cup
    {Some([exchange |-> Some("NASDAQ"), market_cap |-> cap,
           float_shares |-> None, beta |-> Some(12), avg_volume_10d |-> v]) :
        cap \in {None, Some(200)}, v \in {None, Some(500)}}

TickerNews == {None, Some(<<{"fda"}>>), Some(<<{"upgrade"}>>), Some(<<{"reddit"}>>)}

TickerInputs ==
    {[gainer |-> [ticker |-> "AAA", change_percentage |-> p],
      fundamentals |-> f, news_feed |-> n, tech_score |-> t, tie_up |-> u] :
        p \in {25, 100}, f \in TickerFundamentals, n \in TickerNews,
        t \in {250, 900}, u \in BOOLEAN}

InitTicker ==
    /\ hash_seed \in HashSeeds
    /\ run_input \in {Some(x) : x \in TickerInputs}
    /\ run_outputs = <<>>
    /\ OthersIdle("ticker")

\* The path is run once more in the running interpreter.
RunTicker ==
    /\ Len(run_outputs) < 2
    /\ run_outputs' = Append(run_outputs, run_ticker(run_input[1], hash_seed))
    /\ UNCHANGED <<hash_seed, run_input>>
    /\ OthersUnchanged("ticker")

\* The program is started again: a new interpreter with its own hash seed.
NewProcess ==
    /\ Len(run_outputs) = 1
    /\ \E seed \in HashSeeds : hash_seed' = seed
    /\ UNCHANGED <<run_input, run_outputs>>
    /\ OthersUnchanged("ticker")

NextTicker ==
    \/ RunTicker
    \/ NewProcess

SpecTicker == InitTicker /\ [][NextTicker]_vars

(***************************************************************************)
(* Claims on the ranking engine                                            *)
(***************************************************************************)
\* C1: for every RankingInput, the final score rank_candidate computes passes
\* the [0, 10] validation of ShortCandidate, and the final_score of every
\* RankingResult and of its ShortCandidate lies in [0, 10].
C1_FinalScoreInRange ==
    ranking_result # NotCalled =>
        LET r == ranking_result[1] IN
        /\ "final_score" \notin r.raised
        /\ r.raised = {} =>
              /\ 0 <= r.final_score /\ r.final_score <= 1000
              /\ 0 <= r.candidate[1].final_score
              /\ r.candidate[1].final_score <= 1000

\* C1 witness: technical score 10.0 plus a positive adjustment and no
\* penalty: the raw sum is above 10 and the result reports exactly 10.0.
C1_Witness ==
    /\ ranking_result # NotCalled
    /\ ranking_result[1].raised = {}
    /\ ranking_input[1].tech_score = 1000
    /\ ranking_input[1].sentiment_result.score_adjustment > 0
    /\ ranking_result[1].risk_penalty = 0
    /\ ranking_result[1].final_score = 1000

\* C2: determine_expression gives AVOID to every flag list that holds both
\* MICROCAP and HIGH_SQUEEZE, whatever the other flags, the final score, the
\* beta and the sentiment result.
C2_MicrocapSqueezeAvoid ==
    (/\ expr_result # NotCalled
     /\ {"MICROCAP", "HIGH_SQUEEZE"} \subseteq Range(expr_args[1].risk_flags))
        => expr_result[1] = "AVOID"

\* C2 witness: MICROCAP, HIGH_SQUEEZE and a third flag, the top final score,
\* an acceptable beta and no repricing, and the result is AVOID.
C2_Witness ==
    /\ expr_result = Some("AVOID")
    /\ Range(expr_args[1].risk_flags) = {"MICROCAP", "HIGH_SQUEEZE", "WARRANT"}
    /\ expr_args[1].final_score = 1000
    /\ expr_args[1].beta = Some(30)
    /\ ~is_fundamental_repricing(expr_args[1].sentiment_result)

\* The decision table as the claim words it: the condition and the outcome
\* of rule n for the argument tuple a.
C3_RuleHolds(n, a) ==
    LET F == Range(a.risk_flags) IN
    CASE n = 1 -> \/ {"MICROCAP", "HIGH_SQUEEZE"} \subseteq F
                  \/ {"HIGH_SQUEEZE", "EXTREME_VOLATILITY"} \subseteq F
                  \/ {"MICROCAP", "HIGH_SQUEEZE", "LOW_LIQUIDITY"} \subseteq F
      [] n = 2 -> /\ a.sentiment_result.assessment # None
                  /\ a.sentiment_result.assessment[1].justifies_repricing
                  /\ a.sentiment_result.assessment[1].confidence >= 7
      [] n = 3 -> a.final_score < 300
      [] n = 4 -> "HIGH_SQUEEZE" \in F
      [] n = 5 -> "EXTREME_VOLATILITY" \in F
      [] n = 6 -> a.beta # None /\ a.beta[1] > max_beta_for_shares_default
      [] n = 7 -> "MICROCAP" \in F
      [] OTHER -> TRUE

C3_RuleOutcome(n, a) ==
    CASE n \in {1, 2, 3} -> "AVOID"
      [] n = 4 -> "BUY_PUTS"
      [] n = 5 -> "PUT_SPREADS"
      [] n = 6 -> IF 2 * a.beta[1] > 3 * max_beta_for_shares_default
                  THEN "AVOID" ELSE "BUY_PUTS"
      [] n = 7 -> "PUT_SPREADS"
      [] OTHER -> "SHORT_SHARES"

C3_FirstRule(a) ==
    CHOOSE n \in 1..8 : C3_RuleHolds(n, a) /\ \A m \in 1..(n - 1) : ~C3_RuleHolds(m, a)

\* C3: determine_expression returns the outcome of the first rule, in the
\* order 1..8 of the decision table, whose condition holds.
C3_FirstMatchWins ==
    expr_result # NotCalled =>
        expr_result[1] = C3_RuleOutcome(C3_FirstRule(expr_args[1]), expr_args[1])

\* C3 witness: the low-score rule and the HIGH_SQUEEZE rule both apply, no
\* earlier rule does, and the result is the earlier rule's AVOID.
C3_Witness ==
    /\ expr_result = Some("AVOID")
    /\ C3_FirstRule(expr_args[1]) = 3
    /\ C3_RuleHolds(4, expr_args[1])

RECURSIVE C6_SumOver(_)
C6_SumOver(S) ==
    IF S = {} THEN 0
    ELSE LET f == CHOOSE x \in S : TRUE
         IN RISK_PENALTIES(f) + C6_SumOver(S \ {f})

\* C6: compute_risk_penalty returns the sum of the per-flag penalties over
\* the distinct flags of its argument, and 0 for the list [NONE].
C6_PenaltyOverDistinctFlags ==
    penalty_result # NotCalled =>
        /\ penalty_result[1] = C6_SumOver(Range(penalty_flags[1]))
        /\ penalty_flags[1] = <<"NONE">> => penalty_result[1] = 0

\* C6 witness: a penalized flag occurs twice in the list, beside another
\* penalized flag, and the penalty has been computed.
C6_Witness ==
    /\ penalty_result # NotCalled
    /\ \E i, j, k \in 1..Len(penalty_flags[1]) :
          /\ i < j
          /\ penalty_flags[1][i] = penalty_flags[1][j]
          /\ penalty_flags[1][k] # penalty_flags[1][i]
          /\ RISK_PENALTIES(penalty_flags[1][i]) > 0
          /\ RISK_PENALTIES(penalty_flags[1][k]) > 0


(***************************************************************************)
(* Claims on the sentiment analysis                                        *)
(***************************************************************************)
\* C5: the capped adjustment compute_score_adjustment returns lies in
\* [-5, +3] for every NewsAssessment, and so does the score_adjustment of
\* every SentimentResult analyze_catalyst returns, the no-news one included.
C5_AdjustmentInRange ==
    /\ adj_result # NotCalled =>
          -500 <= adj_result[1].capped /\ adj_result[1].capped <= 300
    /\ (catalyst_result # NotCalled /\ catalyst_result[1].raised = None) =>
          /\ -500 <= catalyst_result[1].value[1].score_adjustment
          /\ catalyst_result[1].value[1].score_adjustment <= 300

\* C5 witness: an assessment whose scaled sum is below -5 (M&A, strongly
\* positive, justifying, full confidence: -8.0) came back capped at -5.
C5_Witness ==
    /\ adj_result # NotCalled
    /\ adj_result[1].raw < -500
    /\ adj_result[1].capped = -500

C7_NewsExists ==
    /\ catalyst_args[1].news_feed # None
    /\ Len(catalyst_args[1].news_feed[1]) > 0

C7_ClassificationFails ==
    /\ catalyst_args[1].claude_client # None
    /\ analyze_news(AnalyzeCatalystCallKeywords, catalyst_args[1].news_feed[1],
                    catalyst_args[1].claude_client[1].ready,
                    catalyst_args[1].response).raised # None

C4_SubScoresInRange ==
    /\ \A f \in {"rsi_score", "bollinger_score"} :
          0 <= breakdown[f] /\ breakdown[f] <= 200
    /\ \A f \in {"macd_score", "volume_score", "momentum_score", "pattern_score"} :
          0 <= breakdown[f] /\ breakdown[f] <= 150
    /\ 0 <= breakdown.total_score /\ breakdown.total_score <= 1000
    /\ returned_score # NotCalled =>
          0 <= returned_score[1] /\ returned_score[1] <= 1000

\* C4 witness: every sub-score at the top of its range and the returned
\* technical score 10.0.
C4_Witness ==
    /\ tech_pc = "done"
    /\ breakdown.rsi_score = 200 /\ breakdown.bollinger_score = 200
    /\ breakdown.macd_score = 150 /\ breakdown.volume_score = 150
    /\ breakdown.momentum_score = 150 /\ breakdown.pattern_score = 150
    /\ returned_score = Some(1000)

(***************************************************************************)
(* Claims on run_pipeline                                                  *)
(***************************************************************************)
\* C8: once a sub-component has failed for some ticker (the fundamentals
\* fetch, the news fetch, the catalyst analysis, or an exception raised while
\* the ticker is processed), run_pipeline still ends by returning a
\* PipelineResult, never by raising, and it has processed every gainer.
C8_SubFailureNeverAborts ==
    (sub_failure /\ pc \in {"returned", "raised"})
        => /\ pc = "returned"
           /\ outcome.raised = None
           /\ ended = [k \in 1..Len(gainers) |-> k]

\* C9: every ticker whose processing has ended and whose price fetch gave no
\* daily bars is not among the ranking inputs, is listed in
\* excluded_tickers, and has a reason recorded in errors.
C9_PriceFailureExcludedWithReason ==
    \A k \in price_failed \cap Range(ended) :
        /\ \A j \in 1..Len(ranking_inputs) : ranking_inputs[j].index # k
        /\ gainers[k].ticker \in Range(excluded_tickers)
        /\ \E j \in 1..Len(errors) : errors[j].ticker = gainers[k].ticker

\* C10: in batch analysis the per-ticker pipelines never overlap.  Every
\* fetch in flight belongs to the ticker being processed, none is in flight
\* between two tickers, the tickers start in input order, and a ticker
\* starts only when every ticker before it has ended.
C10_TickersNeverOverlap ==
    /\ \A task \in inflight : task[1] = loop_i
    /\ pc \notin {"gather", "quote"} => inflight = {}
    /\ started = [k \in 1..loop_i |-> k]
    /\ ended = SubSeq(started, 1, Len(ended))
    /\ Len(started) - Len(ended) = IF pc \in {"sleep", "quote", "gather"} THEN 1 ELSE 0

\* The second ticker's fetches are in flight, and the first ticker has ended.
C10_Witness ==
    /\ started = <<1, 2>> /\ ended = <<1>>
    /\ \E task \in inflight : task[1] = 2

(***************************************************************************)
(* Claims on the per-ticker path                                           *)
(***************************************************************************)
\* C11: two runs of the per-ticker path (no LLM) on identical inputs give
\* identical output: the same candidate, with the same risk_flags in the
\* same order, and the same output line.
C11_TwoRunsIdentical ==
    Len(run_outputs) = 2 => run_outputs[1] = run_outputs[2]

\* The candidates of the runs made so far.
CandidatesRun ==
    {run_outputs[i][1].candidate :
        i \in {j \in 1..Len(run_outputs) : run_outputs[j] # None}}

\* C12: in the risk_flags of a candidate from prefilter_ticker followed by
\* rank_candidate, NONE never stands next to another flag.
C12_NoneOnlyAlone ==
    \A candidate \in CandidatesRun :
        "NONE" \in Range(candidate.risk_flags) =>
            Range(candidate.risk_flags) = {"NONE"}

\* A market cap of 80,000,000, a change of 100 percent, and no other risk
\* condition: beta and volume in the normal range, float unknown.
C20_Scenario ==
    /\ run_input # NotCalled
    /\ run_input[1].gainer.change_percentage = 100
    /\ run_input[1].fundamentals # None
    /\ run_input[1].fundamentals[1].market_cap = Some(80)
    /\ run_input[1].fundamentals[1].beta = Some(12)
    /\ run_input[1].fundamentals[1].avg_volume_10d = Some(2000)
    /\ run_input[1].fundamentals[1].float_shares = None

\* C20: in that scenario the ticker is ranked, the risk flags of the
\* pre-filter are exactly MICROCAP and HIGH_SQUEEZE (rank_candidate adds no
\* flag but the catalyst's FUNDAMENTAL_REPRICING), and the expression is
\* AVOID at every final score.
C20_MicrocapSqueezeAvoid ==
    C20_Scenario =>
        /\ \A i \in 1..Len(run_outputs) : run_outputs[i] # None
        /\ \A candidate \in CandidatesRun :
              /\ Range(candidate.risk_flags) \ {"FUNDAMENTAL_REPRICING"}
                    = {"MICROCAP", "HIGH_SQUEEZE"}
              /\ candidate.preferred_expression = "AVOID"

C20_Witness ==
    /\ C20_Scenario
    /\ run_input[1].tech_score = 900
    /\ run_input[1].news_feed = None
    /\ \E candidate \in CandidatesRun :
          /\ Range(candidate.risk_flags) = {"MICROCAP", "HIGH_SQUEEZE"}
          /\ candidate.final_score > 0

(***************************************************************************)
(* Claims on the sentiment flag of rank_candidate                          *)
(***************************************************************************)
\* The candidate rank_candidate has produced carries FUNDAMENTAL_REPRICING
\* exactly when its news assessment justifies repricing.
C13_FlagMirrorsAssessment ==
    LET candidate == ranking_result[1].candidate[1]
    IN "FUNDAMENTAL_REPRICING" \in Range(candidate.risk_flags)
          <=> candidate.news_assessment[1].justifies_repricing

\* C13 as stated: for every candidate produced by rank_candidate,
\* FUNDAMENTAL_REPRICING is in its risk flags if and only if its catalyst
\* assessment has justifies_repricing = true.
C13_Original ==
    (ranking_result # NotCalled /\ ranking_result[1].candidate # None)
        => C13_FlagMirrorsAssessment

\* C13, amended: the flag is present if the assessment justifies repricing;
\* and it is present only if it does, provided that the risk flags given to
\* rank_candidate do not already hold FUNDAMENTAL_REPRICING.
C13_Amended ==
    (ranking_result # NotCalled /\ ranking_result[1].candidate # None) =>
        LET candidate == ranking_result[1].candidate[1]
        IN /\ candidate.news_assessment[1].justifies_repricing
                 => "FUNDAMENTAL_REPRICING" \in Range(candidate.risk_flags)
           /\ "FUNDAMENTAL_REPRICING" \notin Range(ranking_input[1].risk_flags)
                 => C13_FlagMirrorsAssessment

C13_Witness ==
    /\ ranking_result # NotCalled
    /\ ranking_result[1].candidate # None
    /\ "FUNDAMENTAL_REPRICING" \notin Range(ranking_input[1].risk_flags)
    /\ ranking_input[1].risk_flags # <<>>
    /\ ranking_result[1].candidate[1].news_assessment[1].justifies_repricing
    /\ ranking_result[1].candidate[1].news_assessment[1].confidence = 5
    /\ "FUNDAMENTAL_REPRICING" \in Range(ranking_result[1].candidate[1].risk_flags)

(***************************************************************************)
(* Claims on the keyword heuristic and the no-news path                    *)
(***************************************************************************)
\* analyze_catalyst has returned the result of the keyword heuristic.
HeuristicReturned ==
    /\ catalyst_result # NotCalled
    /\ catalyst_result[1].raised = None
    /\ catalyst_result[1].value[1].analysis_source = "heuristic"

\* The keyword groups in the order of the claim, each with its catalyst.
C14_Groups ==
    <<[keywords |-> fda_keywords, catalyst |-> "FDA"],
      [keywords |-> ma_keywords, catalyst |-> "MA"],
      [keywords |-> earnings_keywords, catalyst |-> "EARNINGS"],
      [keywords |-> upgrade_keywords, catalyst |-> "UPGRADE"],
      [keywords |-> contract_keywords, catalyst |-> "CONTRACT"],
      [keywords |-> meme_keywords, catalyst |-> "MEME_SOCIAL"],
      [keywords |-> speculative_keywords, catalyst |-> "SPECULATIVE"]>>

\* The groups with a keyword in one of the headlines.
C14_Matching(headlines) ==
    {g \in 1..Len(C14_Groups) :
        \E i \in 1..Len(headlines) : C14_Groups[g].keywords \cap headlines[i] # {}}

\* C14: the heuristic returns the catalyst of the earliest keyword group, in
\* the order FDA, M&A, earnings, upgrade, contract, meme, speculative, that
\* has a keyword in the headlines, and UNKNOWN when none has.
C14_FirstGroupWins ==
    HeuristicReturned =>
        LET matching == C14_Matching(catalyst_args[1].news_feed[1])
            returned == catalyst_result[1].value[1].assessment[1].catalyst_type
        IN IF matching = {} THEN returned = "UNKNOWN"
           ELSE \E g \in matching :
                   /\ \A h \in matching : g <= h
                   /\ returned = C14_Groups[g].catalyst

\* Headlines of two groups, the later group in the first headline.
C14_Witness ==
    /\ HeuristicReturned
    /\ catalyst_args[1].news_feed[1] = <<{"upgrade"}, {"deal"}>>
    /\ catalyst_result[1].value[1].assessment[1].catalyst_type = "MA"

\* What the heuristic returns for the headlines of the call at each percent
\* change of the sample.
C15_AtChange(change_percent) ==
    heuristic_catalyst_detection(catalyst_args[1].news_feed[1], change_percent)

C15_Changes == {c.change_percent : c \in CatalystArgs}

C16_NoNews ==
    /\ catalyst_args # NotCalled
    /\ catalyst_result # NotCalled
    /\ \/ catalyst_args[1].news_feed = None
       \/ catalyst_args[1].news_feed[1] = <<>>

\* C16: with no news analyze_catalyst returns UNKNOWN with an adjustment of
\* exactly +0.5 from the fixed path (source "none": neither the adjustment
\* tables nor the LLM), and the same result at every percent change, with
\* or without an LLM client, whatever the LLM would have answered.
C16_NoNewsFixedPath ==
    C16_NoNews =>
        /\ catalyst_result[1].raised = None
        /\ catalyst_result[1].value[1].assessment[1].catalyst_type = "UNKNOWN"
        /\ catalyst_result[1].value[1].score_adjustment = 50
        /\ catalyst_result[1].value[1].raw_adjustment = 50
        /\ catalyst_result[1].value[1].analysis_source = "none"
        /\ \A other \in CatalystArgs :
              analyze_catalyst(other.change_percent, catalyst_args[1].news_feed,
                               other.claude_client, other.response)
                 = catalyst_result[1]

\* A feed without items, an LLM client at hand, and a table value for the
\* returned assessment that is not +0.5.
C16_Witness ==
    /\ C16_NoNews
    /\ catalyst_args[1].news_feed = Some(<<>>)
    /\ catalyst_args[1].claude_client # None
    /\ catalyst_result[1].value[1].score_adjustment = 50
    /\ compute_score_adjustment(catalyst_result[1].value[1].assessment[1]).capped # 50

C19_Scenario ==
    /\ tech_result # NotCalled
    /\ tech_result[1].tech_state.rsi_daily = Some(95)
    /\ tech_result[1].tech_state.bb.price_above_upper
    /\ tech_result[1].tech_state.macd.histogram_declining
    /\ tech_result[1].tech_state.volume_vs_avg = Some(50)
    /\ ~tech_result[1].tech_state.volume_confirming_price
    /\ tech_result[1].tech_state.roc_1d = Some(60)
    /\ tech_result[1].tech_state.lower_high_forming
    /\ tech_result[1].tech_state.exhaustion_candle

\* C19: in that scenario the technical score equals 10.0, the raw sum of the
\* sub-scores being above 10 and clamped.
C19_ScenarioScoresTen ==
    C19_Scenario =>
        /\ tech_result[1].score = 1000
        /\ tech_result[1].raw_total > 1000

(***************************************************************************)
(* Claims on the batch ranking                                             *)
(***************************************************************************)
\* C18: rank_candidates_batch returns its results ordered by final_score
\* descending: of two adjacent results the earlier has a final_score greater
\* than or equal to the later.
C18_SortedDescending ==
    ranked_results # NotCalled =>
        \A k \in 1..(Len(ranked_results[1]) - 1) :
            ranked_results[1][k].final_score >= ranked_results[1][k + 1].final_score

\* Two results, the better one from the later input.
C18_Witness ==
    /\ ranked_results # NotCalled
    /\ Len(ranked_results[1]) = 2
    /\ ranked_results[1][1].final_score > ranked_results[1][2].final_score
    /\ ranked_results[1][1].ticker = ranking_inputs[2].ticker
    /\ ranked_results[1][2].ticker = ranking_inputs[1].ticker

(***************************************************************************)
(* Claims on the sentiment adjustment                                      *)
(***************************************************************************)
\* The one headline "FDA Approves New Drug Treatment" (of the keywords only
\* fda occurs in its lower-cased text) on a move of 80 percent, classified by
\* the heuristic.
C21_Scenario ==
    /\ HeuristicReturned
    /\ catalyst_args[1].news_feed = Some(<<{"fda"}>>)
    /\ catalyst_args[1].change_percent = 80

\* C21: for that headline and a change of 80 percent the heuristic path
\* returns FDA, justifies_repricing true, confidence 0.5, and the sentiment
\* adjustment is negative and at most -1.0.
C21_FdaScenario ==
    C21_Scenario =>
        LET returned == catalyst_result[1].value[1]
        IN /\ returned.assessment[1].catalyst_type = "FDA"
           /\ returned.assessment[1].justifies_repricing
           /\ returned.assessment[1].confidence = 5
           /\ returned.score_adjustment < 0
           /\ returned.score_adjustment <= -100

\* The scenario after a failed LLM attempt, the adjustment being -3.5.
C21_Witness ==
    /\ C21_Scenario
    /\ catalyst_args[1].claude_client # None
    /\ catalyst_result[1].value[1].score_adjustment = -350

\* C22: for an assessment of confidence 0, compute_score_adjustment returns a
\* raw value of exactly 0 and a capped value of 0, whatever the catalyst
\* type, the sentiment and justifies_repricing.
C22_ZeroConfidenceZero ==
    (adj_result # NotCalled /\ adj_assessment[1].confidence = 0) =>
        /\ adj_result[1].raw = 0
        /\ adj_result[1].capped = 0

\* An assessment of confidence 0 whose table sum is the lowest there is.
C22_Witness ==
    /\ adj_result # NotCalled
    /\ adj_assessment[1].confidence = 0
    /\ adj_assessment[1].catalyst_type = "MA"
    /\ adj_assessment[1].sentiment = "strongly_positive"
    /\ adj_assessment[1].justifies_repricing
    /\ adj_result[1].capped = 0

(***************************************************************************)
(* Claims on what the ranking leaves behind                                *)
(***************************************************************************)
\* C23: the ranking step of run_pipeline (rank_candidates_batch, which calls
\* rank_candidate on every input) leaves every RankingInput as it was: its
\* risk_flags list, its sentiment result and its technical score, also when
\* FUNDAMENTAL_REPRICING is added to the candidate's flags.
C23_InputsNotMutated ==
    [][(pc = "loop" /\ pc' = "finally") => ranking_inputs' = ranking_inputs]_vars

\* Ranked: an input without FUNDAMENTAL_REPRICING whose candidate has it.
C23_Witness ==
    /\ pc = "finally"
    /\ ranked_results # NotCalled
    /\ \E k \in 1..Len(ranking_inputs), r \in 1..Len(ranked_results[1]) :
          /\ ranked_results[1][r].ticker = ranking_inputs[k].ticker
          /\ "FUNDAMENTAL_REPRICING" \notin Range(ranking_inputs[k].risk_flags)
          /\ "FUNDAMENTAL_REPRICING"
                \in Range(ranked_results[1][r].candidate[1].risk_flags)

(***************************************************************************)
(* Claims on the LLM call                                                  *)
(***************************************************************************)
\* analyze_catalyst has run with an LLM client on a feed with headlines, and
\* the LLM gives no answer within the timeout.
C24_LlmSilent ==
    /\ catalyst_result # NotCalled
    /\ catalyst_args[1].claude_client # None
    /\ catalyst_args[1].news_feed # None
    /\ catalyst_args[1].news_feed[1] # <<>>
    /\ catalyst_args[1].response.kind = "timeout"

C25_MarketCap == FieldOf(run_input[1].fundamentals, "market_cap")

C25_AvgVolume == FieldOf(run_input[1].fundamentals, "avg_volume_10d")

\* C25: check_market_cap and check_volume never exclude: both always return
\* passed = true with no exclusion reason; the flags are MICROCAP exactly when
\* the market cap is unknown or below the threshold, LOW_LIQUIDITY exactly
\* when the average volume is unknown or below the threshold, nothing else.
C25_ChecksOnlyFlag ==
    run_outputs # <<>> =>
        LET mcap == check_market_cap(C25_MarketCap, DefaultSettings.min_market_cap)
            vol == check_volume(C25_AvgVolume, DefaultSettings.min_avg_volume)
            small == \/ C25_MarketCap = None
                     \/ \E cap \in 0..(DefaultSettings.min_market_cap - 1) :
                            C25_MarketCap = Some(cap)
            thin == \/ C25_AvgVolume = None
                    \/ \E volume \in 0..(DefaultSettings.min_avg_volume - 1) :
                           C25_AvgVolume = Some(volume)
        IN /\ mcap.passed /\ mcap.reason = None
           /\ vol.passed /\ vol.reason = None
           /\ mcap.flags = (IF small THEN <<"MICROCAP">> ELSE <<>>)
           /\ vol.flags = (IF thin THEN <<"LOW_LIQUIDITY">> ELSE <<>>)
           /\ prefilter_ticker(run_input[1].fundamentals,
                               run_input[1].gainer.change_percentage,
                               DefaultSettings).passed

\* A ticker at the market-cap threshold with an unknown volume has been run.
C25_Witness ==
    /\ run_outputs # <<>>
    /\ C25_MarketCap = Some(DefaultSettings.min_market_cap)
    /\ C25_AvgVolume = None

(***************************************************************************)
(* Claims on the batch path                                                *)
(***************************************************************************)
\* C26: in BatchAnalyzer.analyze_ticker every ticker whose risk flags include
\* both HIGH_SQUEEZE and EXTREME_VOLATILITY is given AVOID.
C26_SqueezeVolatilityAvoid ==
    (/\ dash_result # NotCalled
     /\ {"HIGH_SQUEEZE", "EXTREME_VOLATILITY"} \subseteq Range(dash_result[1].risk_flags))
        => dash_result[1].expression = "AVOID"

(***************************************************************************)
(* Claims on the AlphaVantageClient                                        *)
(***************************************************************************)
\* C27: any two requests made through one AlphaVantageClient start at least
\* request_delay apart, concurrent requests on the same client included.
C27_RequestsSpaced ==
    \A a, b \in DOMAIN request_started :
        (a # b /\ request_started[a] # None /\ request_started[b] # None) =>
            \/ request_started[a][1] - request_started[b][1] >= request_delay
            \/ request_started[b][1] - request_started[a][1] >= request_delay

(***************************************************************************)
(* Claims on the reported score and the decision table                     *)
(***************************************************************************)
\* C28: for every RankingResult of rank_candidate the reported expression is
\* the one the decision table gives for the reported (rounded) final_score
\* with the same flags, beta and sentiment: no result reports a final_score
\* of 3.0 or more while it is AVOID only because of the low-score rule.
C28_ExpressionOfReportedScore ==
    (ranking_result # NotCalled /\ ranking_result[1].raised = {}) =>
        ranking_result[1].expression =
            determine_expression(ranking_result[1].final_score,
                                 RankRiskFlags(ranking_input[1]),
                                 ranking_input[1].beta,
                                 ranking_input[1].sentiment_result,
                                 max_beta_for_shares_default)

(***************************************************************************)
(* Claims on the per-ticker loop of run_pipeline                           *)
(***************************************************************************)
\* The per-ticker loop has run over every screened gainer.
C29_LoopFinished ==
    runner = "run_pipeline" /\ pc = "loop" /\ loop_i = Len(gainers)

\* How often a ticker stands in ranking_inputs and in excluded_tickers.
C29_TimesRanked(ticker) ==
    Cardinality({k \in 1..Len(ranking_inputs) : ranking_inputs[k].ticker = ticker})

C29_TimesExcluded(ticker) ==
    Cardinality({k \in 1..Len(excluded_tickers) : excluded_tickers[k] = ticker})

\* C29: when run_pipeline finishes its per-ticker loop, every screened ticker
\* is either in ranking_inputs exactly once or in excluded_tickers exactly
\* once, never both and never neither, so the two lists together are as long
\* as the screened list; the PipelineResult that follows reports the same.
C29_RankedOrExcludedOnce ==
    /\ C29_LoopFinished =>
          /\ \A g \in 1..Len(gainers) :
                C29_TimesRanked(gainers[g].ticker)
                    + C29_TimesExcluded(gainers[g].ticker) = 1
          /\ Len(ranking_inputs) + Len(excluded_tickers) = Len(gainers)
    /\ (runner = "run_pipeline" /\ pc = "finally" /\ outcome # NotCalled
            /\ outcome.raised = None) =>
          /\ outcome.value[1].tickers_screened
                = Len(ranking_inputs) + outcome.value[1].tickers_excluded
          /\ outcome.value[1].tickers_excluded = Len(excluded_tickers)

\* The loop is over with one ticker ranked and one excluded by the handler
\* of an unexpected error.
C29_Witness ==
    /\ C29_LoopFinished
    /\ Len(ranking_inputs) = 1
    /\ Len(excluded_tickers) = 1
    /\ \E e \in 1..Len(errors) : errors[e].reason = "Unexpected error"

(***************************************************************************)
(* Claims on the decision table and added flags                            *)
(***************************************************************************)
\* determine_expression on the arguments of the call with one more flag.
C30_WithFlag(flag) ==
    determine_expression(expr_args[1].final_score,
                         Append(expr_args[1].risk_flags, flag),
                         expr_args[1].beta,
                         expr_args[1].sentiment_result,
                         max_beta_for_shares_default)

\* C30: for a fixed final score, beta and sentiment, adding a risk flag to a
\* flag set for which determine_expression returns AVOID never gives an
\* expression other than AVOID.
C30_AvoidKeptUnderMoreFlags ==
    (expr_result # NotCalled /\ expr_result[1] = "AVOID") =>
        \A flag \in RiskFlag : C30_WithFlag(flag) = "AVOID"

=============================================================================
